---- MODULE Spec2Model ----
(***************************************************************************)
(* Dhara NAND flash translation layer: the Journal (src/src/journal.cpp),  *)
(* the Map built on it (map.cpp, kept in src/tests-c++/nand.cpp) and the   *)
(* simulated NAND chip they run on (sim.cpp, kept in src/tests-c++/        *)
(* util.hpp).                                                              *)
(*                                                                         *)
(* Every library function is an operator that takes the machine record m   *)
(* (NAND chip, journal RAM state, map counter, bookkeeping) and returns    *)
(* the machine after the call; m.err is the returned error code and m.val  *)
(* the returned value.                                                     *)
(***************************************************************************)
EXTENDS Integers, Sequences, FiniteSets, TLC

(***************************************************************************)
(* Geometry and configuration                                              *)
(***************************************************************************)
Log2Ppb == 3
Log2Ppc == 2
GcRatio == 4
EpochMod == 256
NumBlocks == 5
MaxRetries == 2
WordBits == 8

RECURSIVE Pow2(_)
Pow2(n) == IF n = 0 THEN 1 ELSE 2 * Pow2(n - 1)

Ppb == Pow2(Log2Ppb)
Ppc == Pow2(Log2Ppc)
TotalPages == NumBlocks * Ppb
Word == Pow2(WordBits)
page_none == Word - 1
sector_none == Word - 1
radix_depth == WordBits

Blocks == 0 .. (NumBlocks - 1)
Pages == 0 .. (TotalPages - 1)
Slots == 0 .. (Ppc - 2)
Levels == 0 .. (radix_depth - 1)

Min(a, b) == IF a < b THEN a ELSE b
Max(a, b) == IF a > b THEN a ELSE b

(* unsigned subtraction of two words *)
WSub(a, b) == (a - b + Word) % Word

(***************************************************************************)
(* Page images                                                             *)
(***************************************************************************)
DataFF == 0
DataInit == -1
DataGarbage == -2
DataMeta == -3

JunkWord == Word \div 3

BlankMeta == [id |-> sector_none, alt |-> [l \in Levels |-> page_none]]
JunkMeta == [id |-> JunkWord, alt |-> [l \in Levels |-> JunkWord]]

FFHdr == [magic |-> FALSE, epoch |-> EpochMod - 1, tail |-> page_none,
          bb_current |-> Word - 1, bb_last |-> Word - 1]
JunkHdr == [magic |-> FALSE, epoch |-> JunkWord, tail |-> JunkWord,
            bb_current |-> JunkWord, bb_last |-> JunkWord]

(* a page holding all-0xff bytes: erased, or the journal's cleared buffer *)
FFPage == [d |-> DataFF, hdr |-> FFHdr, cookie |-> Word - 1,
           slots |-> [i \in Slots |-> BlankMeta]]
(* a page holding bytes that are no metadata: payload, 0x55 fill, noise *)
RawPage(d) == [d |-> d, hdr |-> JunkHdr, cookie |-> JunkWord,
               slots |-> [i \in Slots |-> JunkMeta]]
(* the image of the journal's page buffer *)
BufPage(buf) == [d |-> DataMeta, hdr |-> buf.hdr, cookie |-> buf.cookie,
                 slots |-> buf.slots]

(***************************************************************************)
(* Page geometry helpers                                                   *)
(***************************************************************************)
is_aligned(p, n) == p % Pow2(n) = 0

align_eq(a, b, n) == (a \div Pow2(n)) = (b \div Pow2(n))

next_block(blk) == IF blk + 1 >= NumBlocks THEN 0 ELSE blk + 1

next_upage_nowrap(p) ==
  LET p1 == (p + 1) % Word
  IN IF is_aligned((p1 + 1) % Word, Log2Ppc) THEN (p1 + 1) % Word ELSE p1

next_upage(p) ==
  LET p1 == (p + 1) % Word
      p2 == IF is_aligned((p1 + 1) % Word, Log2Ppc) THEN (p1 + 1) % Word ELSE p1
  IN IF p2 >= TotalPages THEN 0 ELSE p2

hdr_has_magic(pg) == pg.hdr.magic

Ret(m, e) == [m EXCEPT !.err = e]
RetVal(m, v) == [m EXCEPT !.err = "none", !.val = v]
Abort(m, why) == [m EXCEPT !.nand.abort = IF @ = "none" THEN why ELSE @]

(* Bind(v, K): K applied to the value v, which is computed once *)
Bind(v, K(_)) == K(v)

(***************************************************************************)
(* Simulated NAND chip                                                     *)
(***************************************************************************)
SimReset ==
  [pages |-> [p \in Pages |-> RawPage(DataInit)],
   next_page |-> [b \in Blocks |-> Ppb],
   bad_mark |-> [b \in Blocks |-> FALSE],
   failed |-> [b \in Blocks |-> FALSE],
   timebomb |-> [b \in Blocks |-> 0],
   power |-> -1,
   abort |-> "none"]

(* The chip executes the operation only while it has power; power > 0   *)
(* counts the operations left before the supply is cut.  Once the power *)
(* is gone, or the simulator has aborted, the process is dead: the chip *)
(* ignores it and the loops of the library stop.                        *)
Powered(m) == m.nand.power # 0 /\ m.nand.abort = "none"
UsePower(n) == [n EXCEPT !.power = IF @ > 0 THEN @ - 1 ELSE @]

timebomb_tick(n, blk) ==
  IF n.timebomb[blk] > 0
  THEN [n EXCEPT !.timebomb[blk] = @ - 1,
                 !.failed[blk] = IF n.timebomb[blk] = 1 THEN TRUE ELSE @]
  ELSE n

NandIsBad(m, bno) == IF bno \in Blocks THEN m.nand.bad_mark[bno] ELSE FALSE

NandMarkBad(m, bno) ==
  IF ~Powered(m) THEN m
  ELSE IF bno \notin Blocks THEN Abort(m, "mark_bad_invalid")
  ELSE [m EXCEPT !.nand = UsePower([@ EXCEPT !.bad_mark[bno] = TRUE])]

NandErase(m, bno) ==
  IF ~Powered(m) THEN Ret(m, "none")
  ELSE IF bno \notin Blocks THEN Ret(Abort(m, "erase_invalid"), "none")
  ELSE IF m.nand.bad_mark[bno] THEN Ret(Abort(m, "erase_bad_marked"), "none")
  ELSE Bind(timebomb_tick([m.nand EXCEPT !.next_page[bno] = 0], bno), LAMBDA n1 :
         [m EXCEPT
            !.nand = UsePower([n1 EXCEPT !.pages = [p \in Pages |->
                        IF p \div Ppb # bno THEN n1.pages[p]
                        ELSE IF n1.failed[bno] THEN RawPage(DataGarbage)
                        ELSE FFPage]]),
            !.err = IF n1.failed[bno] THEN "bad_block" ELSE "none"])

NandProg(m, p, image) ==
  IF ~Powered(m) THEN Ret(m, "none")
  ELSE IF p \div Ppb \notin Blocks THEN Ret(Abort(m, "prog_invalid"), "none")
  ELSE IF m.nand.bad_mark[p \div Ppb] THEN Ret(Abort(m, "prog_bad_marked"), "none")
  ELSE IF p % Ppb < m.nand.next_page[p \div Ppb]
  THEN Ret(Abort(m, "prog_out_of_order"), "none")
  ELSE Bind(timebomb_tick([m.nand EXCEPT !.next_page[p \div Ppb] = (p % Ppb) + 1],
                          p \div Ppb), LAMBDA n1 :
         [m EXCEPT
            !.nand = UsePower([n1 EXCEPT !.pages[p] =
                        IF n1.failed[p \div Ppb] THEN RawPage(DataGarbage)
                        ELSE image]),
            !.err = IF n1.failed[p \div Ppb] THEN "bad_block" ELSE "none"])

NandIsFree(m, p) == m.nand.next_page[p \div Ppb] <= p % Ppb

(* the image read from a page; a page outside the chip makes the chip abort *)
NandRead(m, p) == IF p \in Pages THEN m.nand.pages[p] ELSE RawPage(DataGarbage)
ReadCheck(m, p) ==
  IF p \in Pages \/ ~Powered(m) THEN m ELSE Abort(m, "read_invalid")

NandCopy(m, src, dst) == NandProg(ReadCheck(m, src), dst, NandRead(m, src))

(***************************************************************************)
(* Journal setup / resume                                                  *)
(***************************************************************************)
hdr_clear_cookie(buf) ==
  [buf EXCEPT !.slots = [i \in Slots |-> BlankMeta], !.cookie = Word - 1]

hdr_clear_user(buf) == [buf EXCEPT !.slots = [i \in Slots |-> BlankMeta]]

clear_recovery(j) ==
  [j EXCEPT !.recover_next = page_none, !.recover_root = page_none,
            !.recover_meta = page_none, !.bad_meta = FALSE,
            !.recovery = FALSE, !.enum_done = FALSE]

reset_journal ==
  [epoch |-> 0, bb_last |-> NumBlocks \div 64, bb_current |-> 0,
   dirty |-> FALSE, bad_meta |-> FALSE, recovery |-> FALSE, enum_done |-> FALSE,
   head |-> 0, tail |-> 0, tail_sync |-> 0, root |-> page_none,
   recover_next |-> page_none, recover_root |-> page_none,
   recover_meta |-> page_none,
   buf |-> [hdr |-> FFHdr, cookie |-> Word - 1,
            slots |-> [i \in Slots |-> BlankMeta]]]

roll_stats(j) ==
  [j EXCEPT !.bb_last = j.bb_current, !.bb_current = 0,
            !.epoch = (@ + 1) % EpochMod]

(* nand.read(p, 0, page_buf): the whole page lands in the journal's buffer *)
ReadIntoBuf(m, p) ==
  Bind(NandRead(m, p), LAMBDA pg :
    [ReadCheck(m, p) EXCEPT !.j.buf = [hdr |-> pg.hdr, cookie |-> pg.cookie,
                                       slots |-> pg.slots]])

RECURSIVE find_checkblock_from(_, _, _)
find_checkblock_from(m, blk, i) ==
  IF ~(blk < NumBlocks /\ i < MaxRetries) THEN Ret(m, "too_bad")
  ELSE IF NandIsBad(m, blk) THEN find_checkblock_from(m, blk + 1, i + 1)
  ELSE Bind(ReadIntoBuf(m, blk * Ppb + (Ppc - 1)), LAMBDA m1 :
         IF m1.j.buf.hdr.magic THEN RetVal(m1, blk)
         ELSE find_checkblock_from(m1, blk + 1, i + 1))

find_checkblock(m, blk) == find_checkblock_from(m, blk, 0)

RECURSIVE find_last_checkblock_search(_, _, _, _)
find_last_checkblock_search(m, first, low, high) ==
  IF ~(low <= high) THEN RetVal(m, first)
  ELSE Bind(find_checkblock(m, (low + high) \div 2), LAMBDA m1 :
         IF m1.err # "none" \/ m1.j.buf.hdr.epoch # m1.j.epoch
         THEN IF (low + high) \div 2 = 0 THEN RetVal(m1, first)
              ELSE find_last_checkblock_search(m1, first, low,
                                               (low + high) \div 2 - 1)
         ELSE IF m1.val + 1 >= NumBlocks THEN RetVal(m1, m1.val)
         ELSE Bind(find_checkblock(m1, m1.val + 1), LAMBDA m2 :
                IF m2.err # "none" \/ m2.j.buf.hdr.epoch # m2.j.epoch
                THEN RetVal(m2, m1.val)
                ELSE find_last_checkblock_search(m2, first, m2.val, high)))

(* a search that settles for the first checkpoint block *)
find_last_checkblock_first(m, first) == RetVal(m, first)

find_last_checkblock(m, first) ==
  find_last_checkblock_search(m, first, first, NumBlocks - 1)

(* cp_free: "free", "used", or "invalid" when is_free is asked about a page *)
(* beyond the end of the chip before any programmed page was seen           *)
RECURSIVE cp_free_from(_, _, _)
cp_free_from(m, first_user, i) ==
  IF i >= Ppc THEN "free"
  ELSE IF first_user + i \notin Pages THEN "invalid"
  ELSE IF ~NandIsFree(m, first_user + i) THEN "used"
  ELSE cp_free_from(m, first_user, i + 1)

cp_free(m, first_user) == cp_free_from(m, first_user, 0)

RECURSIVE find_last_group_search(_, _, _, _)
find_last_group_search(m, blk, low, high) ==
  LET num_groups == Pow2(Log2Ppb - Log2Ppc)
      mid == (low + high) \div 2
      p == mid * Ppc + blk * Ppb
  IN IF ~(low <= high) THEN blk * Ppb
     ELSE IF cp_free(m, p) = "free"
     THEN find_last_group_search(m, blk, low, mid - 1)
     ELSE IF mid + 1 >= num_groups \/ cp_free(m, p + Ppc) = "free"
     THEN p
     ELSE find_last_group_search(m, blk, mid + 1, high)

find_last_group(m, blk) ==
  find_last_group_search(m, blk, 0, Pow2(Log2Ppb - Log2Ppc) - 1)

RECURSIVE find_root_scan(_, _, _)
find_root_scan(m, blk, i) ==
  IF i < 0 THEN Ret(m, "too_bad")
  ELSE Bind(ReadIntoBuf(m, blk * Ppb + (i + 1) * Ppc - 1), LAMBDA m1 :
         IF m1.j.buf.hdr.magic /\ m1.j.buf.hdr.epoch = m1.j.epoch
         THEN Ret([m1 EXCEPT !.j.root = blk * Ppb + (i + 1) * Ppc - 2], "none")
         ELSE find_root_scan(m1, blk, i - 1))

find_root(m, start) ==
  find_root_scan(m, start \div Ppb, (start % Ppb) \div Ppc)

(* a turn of that loop which does not count the wrap *)
find_head_step_noroll(j) == [j EXCEPT !.head = next_upage(j.head)]

(* one turn of the loop of find_head: the head moves to the next user page *)
find_head_step(j) ==
  IF next_upage(j.head) = 0 THEN roll_stats([j EXCEPT !.head = 0])
  ELSE [j EXCEPT !.head = next_upage(j.head)]

RECURSIVE find_head_loop(_)
find_head_loop(m) ==
  Bind([m EXCEPT !.j = find_head_step(m.j)], LAMBDA m1 :
    IF is_aligned(m1.j.head, Log2Ppb)
    THEN IF align_eq(m1.j.head, m1.j.tail, Log2Ppb)
         THEN Ret([m1 EXCEPT !.j.tail = next_block(m1.j.tail \div Ppb) * Ppb], "none")
         ELSE Ret(m1, "none")
    ELSE Bind(cp_free(m1, m1.j.head), LAMBDA f :
           IF f = "invalid"
           THEN Ret(IF Powered(m1) THEN Abort(m1, "is_free_invalid") ELSE m1, "none")
           ELSE IF f = "free" THEN Ret(m1, "none")
           ELSE find_head_loop(m1)))

find_head(m, start) == find_head_loop([m EXCEPT !.j.head = start])

(* resume, once the root has been found: m has the checkpoint in its buffer *)
resume_from_root(m, last_group) ==
  Bind(find_head([m EXCEPT !.j.tail = m.j.buf.hdr.tail,
                           !.j.bb_current = m.j.buf.hdr.bb_current,
                           !.j.bb_last = m.j.buf.hdr.bb_last,
                           !.j.buf = hdr_clear_user(m.j.buf)], last_group),
       LAMBDA m6 :
         Ret([m6 EXCEPT !.j = clear_recovery(
                [m6.j EXCEPT !.dirty = FALSE, !.bad_meta = FALSE,
                             !.recovery = FALSE, !.enum_done = FALSE,
                             !.tail_sync = m6.j.tail])], "none"))

JournalResume(m) ==
  Bind(find_checkblock(m, 0), LAMBDA m1 :
    IF m1.err # "none" THEN Ret([m1 EXCEPT !.j = reset_journal], m1.err)
    ELSE Bind(find_last_checkblock([m1 EXCEPT !.j.epoch = m1.j.buf.hdr.epoch],
                                   m1.val), LAMBDA m3 :
         Bind(find_last_group(m3, m3.val), LAMBDA last_group :
         Bind(find_root(m3, last_group), LAMBDA m4 :
           IF m4.err # "none" THEN Ret([m4 EXCEPT !.j = reset_journal], m4.err)
           ELSE resume_from_root(m4, last_group)))))

(***************************************************************************)
(* Journal: queries                                                        *)
(***************************************************************************)
JournalCapacity(j) ==
  LET max_bad == IF j.bb_last > j.bb_current THEN j.bb_last ELSE j.bb_current
      good_blocks == WSub(WSub(NumBlocks, max_bad), 1)
      good_cps == (good_blocks * Pow2(Log2Ppb - Log2Ppc)) % Word
  IN WSub((good_cps * Ppc) % Word, good_cps)

JournalSize_nowrap(j) ==
  (j.head - j.tail_sync) - ((j.head \div Ppc) - (j.tail_sync \div Ppc))

JournalSize(j) ==
  LET wrapped == j.head < j.tail_sync
      num_pages == j.head + (IF wrapped THEN TotalPages ELSE 0) - j.tail_sync
      num_cps == (j.head \div Ppc) + (IF wrapped THEN TotalPages \div Ppc ELSE 0)
                 - (j.tail_sync \div Ppc)
  IN num_pages - num_cps

is_clean(j) == ~j.dirty

in_recovery(j) == j.recovery

(* read_meta(p, buf): m.val is the metadata read *)
read_meta_flash(m, p) ==
  IF p % Ppc \notin Slots
  THEN [(IF Powered(m) THEN Abort(m, "read_meta_range") ELSE m)
          EXCEPT !.err = "none", !.val = JunkMeta]
  ELSE RetVal(ReadCheck(m, p + (Ppc - 1 - (p % Ppc))),
              NandRead(m, p + (Ppc - 1 - (p % Ppc))).slots[p % Ppc])

read_meta(m, p) ==
  IF p % Ppc \notin Slots
  THEN [(IF Powered(m) THEN Abort(m, "read_meta_range") ELSE m)
          EXCEPT !.err = "none", !.val = JunkMeta]
  ELSE IF align_eq(p, m.j.head, Log2Ppc)
  THEN RetVal(m, m.j.buf.slots[p % Ppc])
  ELSE IF m.j.recover_meta # page_none /\ align_eq(p, m.j.recover_root, Log2Ppc)
  THEN RetVal(ReadCheck(m, m.j.recover_meta),
              NandRead(m, m.j.recover_meta).slots[p % Ppc])
  ELSE RetVal(ReadCheck(m, p + (Ppc - 1 - (p % Ppc))),
              NandRead(m, p + (Ppc - 1 - (p % Ppc))).slots[p % Ppc])

RECURSIVE peek_scan(_, _, _)
peek_scan(m, blk, i) ==
  IF i >= MaxRetries THEN RetVal(m, m.j.tail)
  ELSE IF blk = m.j.head \div Ppb \/ ~NandIsBad(m, blk)
  THEN RetVal([m EXCEPT !.j.tail = blk * Ppb,
                        !.j.root = IF blk * Ppb = m.j.head THEN page_none ELSE @],
              blk * Ppb)
  ELSE peek_scan(m, next_block(blk), i + 1)

JournalPeek(m) ==
  IF m.j.head = m.j.tail THEN RetVal(m, page_none)
  ELSE IF is_aligned(m.j.tail, Log2Ppb) THEN peek_scan(m, m.j.tail \div Ppb, 0)
  ELSE RetVal(m, m.j.tail)

(* dequeue that moves tail_sync whether or not the journal is clean *)
dequeue_always_sync(m) ==
  IF m.j.head = m.j.tail THEN m
  ELSE [m EXCEPT !.j.tail = next_upage(m.j.tail),
                 !.j.tail_sync = next_upage(m.j.tail),
                 !.j.root = IF m.j.head = next_upage(m.j.tail) THEN page_none
                            ELSE @]

dequeue(m) ==
  IF m.j.head = m.j.tail THEN m
  ELSE [m EXCEPT !.j.tail = next_upage(m.j.tail),
                 !.j.tail_sync = IF ~(m.j.dirty \/ m.j.recovery)
                                 THEN next_upage(m.j.tail) ELSE @,
                 !.j.root = IF m.j.head = next_upage(m.j.tail) THEN page_none
                            ELSE @]

(* what the documentation says of a dequeue() that took m to r *)
DequeueAsClaimed(m, r) ==
  IF m.j.head = m.j.tail THEN r.j = m.j
  ELSE /\ r.j.tail = next_upage(m.j.tail)
       /\ r.j.head = m.j.head
       /\ r.j.tail_sync = IF is_clean(m.j) THEN r.j.tail ELSE m.j.tail_sync

(* dequeue(), and the note of whether every call so far did as documented *)
JournalDequeue(m) ==
  Bind(dequeue(m), LAMBDA r :
    [r EXCEPT !.g.dq_ok = @ /\ DequeueAsClaimed(m, r)])

JournalClear(m) ==
  [m EXCEPT !.j.tail = m.j.head, !.j.root = page_none, !.j.dirty = TRUE,
            !.j.buf = hdr_clear_user(@)]

next_recoverable(m) ==
  IF ~in_recovery(m.j) THEN RetVal(m, page_none)
  ELSE IF m.j.enum_done THEN RetVal(m, page_none)
  ELSE IF m.j.recover_next = m.j.recover_root
  THEN RetVal([m EXCEPT !.j.enum_done = TRUE], m.j.recover_next)
  ELSE RetVal([m EXCEPT !.j.recover_next = next_upage(@)], m.j.recover_next)

(***************************************************************************)
(* Map: radix tree lookup                                                  *)
(***************************************************************************)
d_bit(depth) == Pow2(radix_depth - depth - 1)

(* bit `depth' (counted from the most significant) of a word *)
BitAt(x, depth) == (x \div d_bit(depth)) % 2

(* (target ^ id) & d_bit(depth) *)
Differ(target, id, depth) == BitAt(target, depth) # BitAt(id, depth)

(* the 0xff fill of the alt-pointers from level `from' on *)
FillAlt(meta, from) ==
  [meta EXCEPT !.alt = [l \in Levels |-> IF l >= from THEN sector_none
                                         ELSE meta.alt[l]]]

(* trace_path: t.m is the machine (read_meta may abort the chip), t.err   *)
(* the result, t.page the page found, t.new_meta the metadata built for a *)
(* rewrite of target                                                      *)
RECURSIVE trace_path_loop(_, _, _, _, _, _)
trace_path_loop(m, target, new_meta, meta, p, depth) ==
  IF depth >= radix_depth
  THEN [m |-> m, err |-> "none", page |-> p, new_meta |-> new_meta]
  ELSE IF meta.id = sector_none
  THEN [m |-> m, err |-> "not_found", page |-> page_none,
        new_meta |-> FillAlt(new_meta, depth)]
  ELSE IF Differ(target, meta.id, depth)
  THEN IF meta.alt[depth] = page_none
       THEN [m |-> m, err |-> "not_found", page |-> page_none,
             new_meta |-> FillAlt([new_meta EXCEPT !.alt[depth] = p], depth + 1)]
       ELSE Bind(read_meta(m, meta.alt[depth]), LAMBDA m1 :
              trace_path_loop(m1, target, [new_meta EXCEPT !.alt[depth] = p],
                              m1.val, meta.alt[depth], depth + 1))
  ELSE trace_path_loop(m, target,
                       [new_meta EXCEPT !.alt[depth] = meta.alt[depth]],
                       meta, p, depth + 1)

trace_path(m, target, old_meta) ==
  IF m.j.root # page_none
  THEN Bind(read_meta(m, m.j.root), LAMBDA m1 :
         trace_path_loop(m1, target, [old_meta EXCEPT !.id = target], m1.val,
                         m.j.root, 0))
  ELSE [m |-> m, err |-> "not_found", page |-> page_none,
        new_meta |-> FillAlt([old_meta EXCEPT !.id = target], 0)]

MapFind(m, target) == trace_path(m, target, BlankMeta)

(* Map.read: the payload returned for sector s (DataFF for a blank page) *)
MapRead(m, s) ==
  Bind(MapFind(m, s), LAMBDA t :
    IF t.err = "not_found" THEN DataFF ELSE NandRead(t.m, t.page).d)

(***************************************************************************)
(* Bookkeeping carried next to the program state (not program state):      *)
(*   ck, ck_root, ck_view, ck_count  the last checkpoint programmed with   *)
(*                        success: root, sector contents and count then    *)
(*   root_meta_ok         every successful enqueue/copy so far was         *)
(*                        followed by read_meta(root()) == its meta        *)
(*   dq_ok                every dequeue() so far did what its              *)
(*                        documentation says                               *)
(***************************************************************************)
MaxSector == 2
Sectors == 0 .. MaxSector

MapView(m) == [s \in Sectors |-> MapRead(m, s)]

NoteCheckpoint(m) ==
  [m EXCEPT !.g.ck = TRUE, !.g.ck_root = m.j.root, !.g.ck_view = MapView(m),
            !.g.ck_count = m.j.buf.cookie]

NoteRootMeta(m, meta) ==
  IF ~Powered(m) \/ m.nand.abort # "none" THEN m
  ELSE [m EXCEPT !.g.root_meta_ok = @ /\ (read_meta(m, m.j.root).val = meta)]

(***************************************************************************)
(* Journal: enqueue, copy and bad-block recovery                           *)
(***************************************************************************)
(* head = p, and roll_stats() when that is page 0 *)
SetHead(j, p) ==
  IF p = 0 THEN roll_stats([j EXCEPT !.head = p]) ELSE [j EXCEPT !.head = p]

skip_block(m) ==
  IF m.j.tail_sync \div Ppb = next_block(m.j.head \div Ppb)
  THEN Ret(m, "journal_full")
  ELSE Ret([m EXCEPT !.j = SetHead(m.j, next_block(m.j.head \div Ppb) * Ppb)],
           "none")

prepare_head_loop_noskip(m, i) ==
  IF i >= MaxRetries THEN Ret(m, "too_bad")
  ELSE NandErase(m, m.j.head \div Ppb)

RECURSIVE prepare_head_loop(_, _)
prepare_head_loop(m, i) ==
  IF i >= MaxRetries THEN Ret(m, "too_bad")
  ELSE IF ~NandIsBad(m, m.j.head \div Ppb) THEN NandErase(m, m.j.head \div Ppb)
  ELSE Bind(skip_block([m EXCEPT !.j.bb_current = (@ + 1) % Word]), LAMBDA m1 :
         IF m1.err # "none" THEN m1 ELSE prepare_head_loop(m1, i + 1))

prepare_head_nofull(m) ==
  IF ~is_aligned(m.j.head, Log2Ppb) THEN Ret([m EXCEPT !.j.dirty = TRUE], "none")
  ELSE prepare_head_loop([m EXCEPT !.j.dirty = TRUE], 0)

prepare_head(m) ==
  IF align_eq(next_upage(m.j.head), m.j.tail_sync, Log2Ppb)
     /\ ~align_eq(next_upage(m.j.head), m.j.head, Log2Ppb)
  THEN Ret(m, "journal_full")
  ELSE IF ~is_aligned(m.j.head, Log2Ppb) THEN Ret([m EXCEPT !.j.dirty = TRUE], "none")
  ELSE prepare_head_loop([m EXCEPT !.j.dirty = TRUE], 0)

restart_recovery_nomark(m, old_head) ==
  [m EXCEPT !.j.enum_done = FALSE,
            !.j.recover_next = m.j.recover_root - (m.j.recover_root % Ppb),
            !.j.root = m.j.recover_root]

restart_recovery(m, old_head) ==
  Bind(IF m.j.recover_meta = page_none
          \/ ~align_eq(m.j.recover_meta, old_head, Log2Ppb)
       THEN NandMarkBad(m, old_head \div Ppb)
       ELSE [m EXCEPT !.j.bad_meta = TRUE], LAMBDA m1 :
    [m1 EXCEPT !.j.enum_done = FALSE,
               !.j.recover_next = m1.j.recover_root - (m1.j.recover_root % Ppb),
               !.j.root = m1.j.recover_root])

(* dump_meta, after the buffer was programmed at the head with success *)
dump_meta_done(m) ==
  Ret([m EXCEPT !.j = [SetHead([m.j EXCEPT !.recover_meta = m.j.head],
                               next_upage(m.j.head))
                         EXCEPT !.buf = hdr_clear_user(@)]], "none")

RECURSIVE dump_meta_loop(_, _)
dump_meta_loop(m, i) ==
  IF i >= MaxRetries THEN Ret(m, "too_bad")
  ELSE Bind(prepare_head(m), LAMBDA m1 :
       Bind(IF m1.err # "none" THEN m1
            ELSE NandProg(m1, m1.j.head, BufPage(m1.j.buf)), LAMBDA m2 :
         IF m2.err = "none" THEN dump_meta_done(m2)
         ELSE IF m2.err # "bad_block" THEN m2
         ELSE Bind(skip_block(NandMarkBad(
                      [m2 EXCEPT !.j.bb_current = (@ + 1) % Word],
                      m2.j.head \div Ppb)), LAMBDA m4 :
                IF m4.err # "none" THEN m4 ELSE dump_meta_loop(m4, i + 1))))

dump_meta(m) == dump_meta_loop(m, 0)

(* recover_from, for a first failure in the middle of a block: m is the  *)
(* journal after skip_block()                                            *)
recover_start(m, old_head) ==
  Bind([m EXCEPT !.j.recover_root = m.j.root,
                 !.j.recover_next = m.j.root - (m.j.root % Ppb)], LAMBDA m2 :
  Bind(IF ~is_aligned(old_head, Log2Ppc) THEN dump_meta(m2) ELSE Ret(m2, "none"),
       LAMBDA m3 :
         IF m3.err # "none" THEN m3
         ELSE Ret([m3 EXCEPT !.j.recovery = TRUE], "recover")))

recover_from(m, write_err) ==
  IF write_err # "bad_block" THEN Ret(m, write_err)
  ELSE Bind(skip_block([m EXCEPT !.j.bb_current = (@ + 1) % Word]), LAMBDA m1 :
         IF m1.err # "none" THEN m1
         ELSE IF in_recovery(m1.j)
         THEN Ret(restart_recovery(m1, m.j.head), "recover")
         ELSE IF is_aligned(m.j.head, Log2Ppb)
         THEN Ret(NandMarkBad(m1, m.j.head \div Ppb), "none")
         ELSE recover_start(m1, m.j.head))

finish_recovery(m) ==
  Bind(NandMarkBad(m, m.j.recover_root \div Ppb), LAMBDA m1 :
    [(IF m1.j.bad_meta THEN NandMarkBad(m1, m1.j.recover_meta \div Ppb) ELSE m1)
       EXCEPT !.j = clear_recovery(@)])

push_meta_done_synchead(m, old_head, durable) ==
  Bind([m EXCEPT !.j = SetHead([m.j EXCEPT !.dirty = FALSE, !.root = old_head],
                               next_upage(old_head))], LAMBDA m4 :
  Bind(IF m4.j.enum_done THEN finish_recovery(m4) ELSE m4, LAMBDA m5 :
    Ret([m5 EXCEPT !.j.tail_sync = IF ~m5.j.recovery THEN m5.j.head ELSE @],
        "none")))

push_meta_done_finish(m, old_head, durable) ==
  Bind([m EXCEPT !.j = SetHead([m.j EXCEPT !.dirty = FALSE, !.root = old_head],
                               next_upage(old_head))], LAMBDA m4 :
  Bind(IF m4.j.recovery THEN finish_recovery(m4) ELSE m4, LAMBDA m5 :
  Bind([m5 EXCEPT !.j.tail_sync = IF ~m5.j.recovery THEN m5.j.tail ELSE @],
       LAMBDA m6 :
         Ret(IF durable THEN NoteCheckpoint(m6) ELSE m6, "none"))))

push_meta_done_synctail(m, old_head, durable) ==
  Bind([m EXCEPT !.j = SetHead([m.j EXCEPT !.dirty = FALSE, !.root = old_head],
                               next_upage(old_head))], LAMBDA m4 :
  Bind(IF m4.j.enum_done THEN finish_recovery(m4) ELSE m4, LAMBDA m5 :
  Bind([m5 EXCEPT !.j.tail_sync = m5.j.tail], LAMBDA m6 :
         Ret(IF durable THEN NoteCheckpoint(m6) ELSE m6, "none"))))

(* push_meta, after the checkpoint page was programmed with success:     *)
(* durable says whether the chip had power to program it                 *)
push_meta_done(m, old_head, durable) ==
  Bind([m EXCEPT !.j = SetHead([m.j EXCEPT !.dirty = FALSE, !.root = old_head],
                               next_upage(old_head))], LAMBDA m4 :
  Bind(IF m4.j.enum_done THEN finish_recovery(m4) ELSE m4, LAMBDA m5 :
  Bind([m5 EXCEPT !.j.tail_sync = IF ~m5.j.recovery THEN m5.j.tail ELSE @],
       LAMBDA m6 :
         Ret(IF durable THEN NoteCheckpoint(m6) ELSE m6, "none"))))

push_meta_keeproot(m, meta) ==
  IF ~is_aligned(m.j.head + 2, Log2Ppc)
  THEN Ret([m EXCEPT !.j.buf.slots[m.j.head % Ppc] = meta,
                     !.j.head = m.j.head + 1], "none")
  ELSE Bind([m EXCEPT !.j.buf.slots[m.j.head % Ppc] = meta,
                      !.j.buf.hdr = [magic |-> TRUE, epoch |-> m.j.epoch,
                                     tail |-> m.j.tail,
                                     bb_current |-> m.j.bb_current,
                                     bb_last |-> m.j.bb_last]], LAMBDA m2 :
       Bind(NandProg(m2, m2.j.head + 1, BufPage(m2.j.buf)), LAMBDA m3 :
         IF m3.err # "none" THEN recover_from(m3, m3.err)
         ELSE push_meta_done(m3, m.j.head, Powered(m2))))

(* meta is the metadata pushed; a null meta pointer is BlankMeta *)
push_meta(m, meta) ==
  IF ~is_aligned(m.j.head + 2, Log2Ppc)
  THEN Ret([m EXCEPT !.j.buf.slots[m.j.head % Ppc] = meta,
                     !.j.root = m.j.head, !.j.head = m.j.head + 1], "none")
  ELSE Bind([m EXCEPT !.j.buf.slots[m.j.head % Ppc] = meta,
                      !.j.buf.hdr = [magic |-> TRUE, epoch |-> m.j.epoch,
                                     tail |-> m.j.tail,
                                     bb_current |-> m.j.bb_current,
                                     bb_last |-> m.j.bb_last]], LAMBDA m2 :
       Bind(NandProg(m2, m2.j.head + 1, BufPage(m2.j.buf)), LAMBDA m3 :
         IF m3.err # "none" THEN recover_from(m3, m3.err)
         ELSE push_meta_done(m3, m.j.head, Powered(m2))))

(* the retry loop of enqueue and of copy: kind says whether the page is    *)
(* programmed from data, copied from src, or left alone (null data)        *)
RECURSIVE journal_write_loop(_, _, _, _, _, _)
journal_write_loop(m, kind, image, src, meta, i) ==
  IF i >= MaxRetries THEN Ret(m, "too_bad")
  ELSE Bind(prepare_head(m), LAMBDA m1 :
       Bind(IF m1.err # "none" THEN m1
            ELSE IF kind = "copy" THEN NandCopy(m1, src, m1.j.head)
            ELSE IF kind = "data" THEN NandProg(m1, m1.j.head, image)
            ELSE m1, LAMBDA m2 :
         IF m2.err = "none"
         THEN Bind(push_meta(m2, meta), LAMBDA m3 :
                IF m3.err = "none" THEN NoteRootMeta(m3, meta) ELSE m3)
         ELSE Bind(recover_from(m2, m2.err), LAMBDA m3 :
                IF m3.err # "none" THEN m3
                ELSE journal_write_loop(m3, kind, image, src, meta, i + 1))))

(* enqueue(data, meta) *)
JournalEnqueue(m, d, meta) ==
  journal_write_loop(m, "data", RawPage(d), page_none, meta, 0)

(* enqueue(nullptr, nullptr) *)
JournalEnqueueFiller(m) ==
  journal_write_loop(m, "null", FFPage, page_none, BlankMeta, 0)

(* copy(p, meta) *)
JournalCopy(m, p, meta) ==
  journal_write_loop(m, "copy", FFPage, p, meta, 0)

(***************************************************************************)
(* Map                                                                     *)
(***************************************************************************)
ck_set_count(m, c) == [m EXCEPT !.j.buf.cookie = c % Word]

MapCapacity(j) ==
  LET cap == JournalCapacity(j)
      reserve == cap \div (GcRatio + 1)
      safety_margin == MaxRetries * Ppb
  IN IF reserve + safety_margin >= cap THEN 0 ELSE cap - reserve - safety_margin

raw_gc(m, src) ==
  Bind(read_meta(m, src), LAMBDA m1 :
    IF m1.val.id = sector_none THEN Ret(m1, "none")
    ELSE Bind(trace_path(m1, m1.val.id, m1.val), LAMBDA t :
           IF t.err = "not_found" THEN Ret(t.m, "none")
           ELSE IF t.page # src THEN Ret(t.m, "none")
           ELSE JournalCopy(ck_set_count(t.m, t.m.count), src, t.new_meta)))

pad_queue(m) ==
  IF m.j.root = page_none THEN JournalEnqueueFiller(ck_set_count(m, m.count))
  ELSE Bind(read_meta(ck_set_count(m, m.count), m.j.root), LAMBDA m2 :
         JournalCopy(m2, m.j.root, m2.val))

RECURSIVE try_recover_loop(_, _)
try_recover_loop(m, restart_count) ==
  IF ~Powered(m) THEN m
  ELSE IF ~in_recovery(m.j) THEN Ret(m, "none")
  ELSE Bind(next_recoverable(m), LAMBDA m1 :
       Bind(IF m1.val = page_none THEN pad_queue(m1) ELSE raw_gc(m1, m1.val),
            LAMBDA m2 :
         IF m2.err = "none" THEN try_recover_loop(m2, restart_count)
         ELSE IF m2.err # "recover" THEN m2
         ELSE IF restart_count >= MaxRetries THEN Ret(m2, "too_bad")
         ELSE try_recover_loop(m2, restart_count + 1)))

try_recover(m, cause) ==
  IF cause # "recover" THEN Ret(m, cause) ELSE try_recover_loop(m, 0)

RECURSIVE MapGc(_)
MapGc(m) ==
  IF ~Powered(m) THEN m
  ELSE IF m.count = 0 THEN Ret(m, "none")
  ELSE Bind(JournalPeek(m), LAMBDA m1 :
         IF m1.val = page_none THEN Ret(m1, "none")
         ELSE Bind(raw_gc(m1, m1.val), LAMBDA m2 :
                IF m2.err = "none" THEN Ret(JournalDequeue(m2), "none")
                ELSE Bind(try_recover(m2, m2.err), LAMBDA m3 :
                       IF m3.err # "none" THEN m3 ELSE MapGc(m3))))

RECURSIVE auto_gc_loop(_, _)
auto_gc_loop(m, i) ==
  IF i >= GcRatio THEN Ret(m, "none")
  ELSE Bind(MapGc(m), LAMBDA m1 :
         IF m1.err # "none" THEN m1 ELSE auto_gc_loop(m1, i + 1))

auto_gc_never(m) == Ret(m, "none")

auto_gc(m) ==
  IF JournalSize(m.j) < MapCapacity(m.j) THEN Ret(m, "none")
  ELSE auto_gc_loop(m, 0)

(* count, raised by one when the sector written is a new one *)
NewCount(t) == IF t.err = "not_found" THEN (t.m.count + 1) % Word ELSE t.m.count

(* prepare_write: m.val is the metadata built for the new page *)
(* prepare_write without the test against capacity() *)
prepare_write_nofull(m, dst) ==
  Bind(auto_gc(m), LAMBDA m1 :
    IF m1.err # "none" THEN m1
    ELSE Bind(trace_path(m1, dst, BlankMeta), LAMBDA t :
           RetVal(ck_set_count([t.m EXCEPT !.count = NewCount(t)],
                               NewCount(t)), t.new_meta)))

prepare_write(m, dst) ==
  Bind(auto_gc(m), LAMBDA m1 :
    IF m1.err # "none" THEN m1
    ELSE Bind(trace_path(m1, dst, BlankMeta), LAMBDA t :
           IF t.err = "not_found" /\ t.m.count >= MapCapacity(t.m.j)
           THEN Ret(t.m, "map_full")
           ELSE RetVal(ck_set_count([t.m EXCEPT !.count = NewCount(t)],
                                    NewCount(t)), t.new_meta)))

(* write (kind "data") and copy_page (kind "copy") share their loop *)
RECURSIVE map_write_loop(_, _, _, _, _)
map_write_loop(m, kind, dst, d, src) ==
  IF ~Powered(m) THEN m
  ELSE Bind(prepare_write(m, dst), LAMBDA m1 :
         IF m1.err # "none" THEN m1
         ELSE Bind(IF kind = "copy" THEN JournalCopy(m1, src, m1.val)
                   ELSE JournalEnqueue(m1, d, m1.val), LAMBDA m2 :
                IF m2.err = "none" THEN m2
                ELSE Bind(try_recover([m2 EXCEPT !.count = m.count], m2.err),
                          LAMBDA m3 :
                            IF m3.err # "none" THEN m3
                            ELSE map_write_loop(m3, kind, dst, d, src))))

MapWrite(m, dst, d) == map_write_loop(m, "data", dst, d, page_none)

copy_page(m, src, dst) == map_write_loop(m, "copy", dst, DataFF, src)

MapClear(m) ==
  IF m.count # 0 THEN JournalClear([m EXCEPT !.count = 0]) ELSE m

(* the deepest level at which meta holds an alt-pointer, or -1 *)
RECURSIVE cousin_level(_, _)
cousin_level(meta, level) ==
  IF level < 0 THEN -1
  ELSE IF meta.alt[level] # page_none THEN level
  ELSE cousin_level(meta, level - 1)

(* the metadata of the cousin, rewritten to take the place of the node *)
(* deleted at `level'                                                  *)
CousinMeta_keep(meta, alt_meta, level) ==
  [id |-> alt_meta.id,
   alt |-> [l \in Levels |-> IF l > level THEN alt_meta.alt[l]
                             ELSE meta.alt[l]]]

CousinMeta(meta, alt_meta, level) ==
  [id |-> alt_meta.id,
   alt |-> [l \in Levels |-> IF l = level THEN page_none
                             ELSE IF l > level THEN alt_meta.alt[l]
                             ELSE meta.alt[l]]]

try_delete(m, s) ==
  Bind(trace_path(m, s, BlankMeta), LAMBDA t :
    IF t.err = "not_found" THEN Ret(t.m, "none")
    ELSE Bind(cousin_level(t.new_meta, radix_depth - 1), LAMBDA level :
           IF level < 0 THEN Ret(MapClear(t.m), "none")
           ELSE Bind(read_meta(t.m, t.new_meta.alt[level]), LAMBDA m1 :
                Bind(JournalCopy(ck_set_count(m1, m1.count - 1),
                                 t.new_meta.alt[level],
                                 CousinMeta(t.new_meta, m1.val, level)),
                     LAMBDA m2 :
                       IF m2.err # "none" THEN m2
                       ELSE Ret([m2 EXCEPT !.count = (@ - 1 + Word) % Word],
                                "none")))))

RECURSIVE MapTrim(_, _)
MapTrim(m, s) ==
  IF ~Powered(m) THEN m
  ELSE Bind(auto_gc(m), LAMBDA m1 :
         IF m1.err # "none" THEN m1
         ELSE Bind(try_delete(m1, s), LAMBDA m2 :
                IF m2.err = "none" THEN m2
                ELSE Bind(try_recover(m2, m2.err), LAMBDA m3 :
                       IF m3.err # "none" THEN m3 ELSE MapTrim(m3, s))))

(* copy_sector that takes every source for unmapped *)
copy_sector_trim(m, src, dst) == MapTrim(m, dst)

copy_sector(m, src, dst) ==
  Bind(MapFind(m, src), LAMBDA t :
    IF t.err = "not_found" THEN MapTrim(t.m, dst)
    ELSE copy_page(t.m, t.page, dst))

(* the body of the loop of sync up to the error check: pad_queue() on an *)
(* empty journal, else raw_gc(p) followed by dequeue()                   *)
sync_step(m, p) ==
  IF p = page_none THEN pad_queue(m)
  ELSE Bind(raw_gc(m, p), LAMBDA r : Ret(JournalDequeue(r), r.err))

(* a sync that pads the queue without asking whether the journal is clean *)
MapSync_pad(m) == IF ~Powered(m) THEN m ELSE pad_queue(m)

RECURSIVE MapSync(_)
MapSync(m) ==
  IF ~Powered(m) THEN m
  ELSE IF is_clean(m.j) THEN Ret(m, "none")
  ELSE Bind(JournalPeek(m), LAMBDA m1 :
       Bind(sync_step(m1, m1.val), LAMBDA m2 :
         IF m2.err = "none" THEN MapSync(m2)
         ELSE Bind(try_recover(m2, m2.err), LAMBDA m3 :
                IF m3.err # "none" THEN m3 ELSE MapSync(m3))))

(* resume() that leaves count at zero *)
MapResume_nocount(m) ==
  Bind(JournalResume(m), LAMBDA m1 : [m1 EXCEPT !.count = 0])

(* resume() that leaves count alone when the journal's resume fails *)
MapResume_keepcount(m) ==
  Bind(JournalResume(m), LAMBDA m1 :
    IF m1.err # "none" THEN m1
    ELSE [m1 EXCEPT !.count = m1.j.buf.cookie])

MapResume(m) ==
  Bind(JournalResume(m), LAMBDA m1 :
    IF m1.err # "none" THEN [m1 EXCEPT !.count = 0]
    ELSE [m1 EXCEPT !.count = m1.j.buf.cookie])

(***************************************************************************)
(* Test harness of the map: the tree walk of TestMapBase                   *)
(***************************************************************************)
(* id ^ (1 << (W - 1 - i)) *)
FlipBit(id, i) == IF BitAt(id, i) = 1 THEN id - d_bit(i) ELSE id + d_bit(i)

(* !((id ^ id_expect) >> (W - depth)) *)
SamePrefix(id, id_expect, depth) ==
  (id \div Pow2(radix_depth - depth)) = (id_expect \div Pow2(radix_depth - depth))

(* check_recurse: r.count is the number of nodes walked, r.live whether  *)
(* the assertions on the page offsets held for all of them, r.radix      *)
(* whether the assertion on the id prefix did, r.mapped the number of   *)
(* nodes walked whose metadata names a sector.  The walk goes on below a *)
(* page that fails the offset assertions, and stops at a pointer that is *)
(* no user page of the chip.                                             *)
RECURSIVE check_recurse(_, _, _, _, _), check_alts(_, _, _, _, _)
check_recurse(m, parent, page, id_expect, depth) ==
  IF page = page_none
  THEN [count |-> 0, mapped |-> 0, live |-> TRUE, radix |-> TRUE]
  ELSE IF page >= TotalPages \/ page % Ppc = Ppc - 1
  THEN [count |-> 1, mapped |-> 1, live |-> FALSE, radix |-> TRUE]
  ELSE Bind(read_meta(m, page).val, LAMBDA meta :
       Bind(check_alts(m, page, meta, meta.id, depth), LAMBDA sub :
         [count |-> 1 + sub.count,
          mapped |-> (IF meta.id = sector_none THEN 0 ELSE 1) + sub.mapped,
          live |-> sub.live
                   /\ WSub(page, m.j.tail) < WSub(parent, m.j.tail)
                   /\ WSub(page, m.j.tail) < WSub(m.j.head, m.j.tail),
          radix |-> sub.radix
                    /\ (depth = 0 \/ SamePrefix(meta.id, id_expect, depth))]))

check_alts(m, page, meta, id, i) ==
  IF i >= radix_depth
  THEN [count |-> 0, mapped |-> 0, live |-> TRUE, radix |-> TRUE]
  ELSE Bind(check_recurse(m, page, meta.alt[i], FlipBit(id, i), i + 1), LAMBDA a :
       Bind(check_alts(m, page, meta, id, i + 1), LAMBDA b :
         [count |-> a.count + b.count, mapped |-> a.mapped + b.mapped,
          live |-> a.live /\ b.live, radix |-> a.radix /\ b.radix]))

MapCheck(m) == check_recurse(m, m.j.head, m.j.root, 0, 0)

(***************************************************************************)
(* State                                                                   *)
(***************************************************************************)
VARIABLES
  nand,      \* the simulated chip
  journal,   \* RAM state of the Journal
  count,     \* Map::count
  g,         \* bookkeeping updated inside the library calls
  mode,      \* "run": the object is usable; "off": it has to be resumed
  shadow,    \* what each sector is expected to hold, and which call said so
  last,      \* the last call made: name, argument, result, state before
  nscript,   \* calls of the scripted workload made so far
  nops,      \* freely chosen calls made so far
  nfaults,   \* faults injected so far
  ncrash,    \* power losses so far
  jt,        \* counters of the journal test harness
  config     \* the template arguments of Journal, and the log2_ppc chosen

vars == <<nand, journal, count, g, mode, shadow, last, nscript, nops, nfaults,
          ncrash, jt, config>>

MaxScript == 20
MaxOps == 2
MaxFaults == 1
MaxCrashes == 1
MaxPower == 3
MaxTtl == 3
MaxHammer == 6

Unknown == -9

M == [nand |-> nand, j |-> journal, count |-> count, err |-> "none",
      val |-> 0, g |-> g]

G0 == [ck |-> FALSE, ck_root |-> page_none,
       ck_view |-> [s \in Sectors |-> DataFF], ck_count |-> 0,
       root_meta_ok |-> TRUE, dq_ok |-> TRUE]

Snap(m) == [root |-> m.j.root, head |-> m.j.head, tail |-> m.j.tail,
            count |-> m.count, view |-> MapView(m),
            found |-> [s \in Sectors |-> MapFind(m, s).err = "none"]]

NoSnap == [root |-> page_none, head |-> 0, tail |-> 0, count |-> 0,
           view |-> [s \in Sectors |-> DataFF],
           found |-> [s \in Sectors |-> FALSE]]

(* the journal test: the batch sizes of the run (nE pages enqueued, then  *)
(* nD dequeued, and whether do_tail_sync follows a drained queue), where *)
(* the run stands (phase, pages left in the batch), the ids enqueued and *)
(* dequeued so far, garbage_count of dequeue_sequence, the retries made  *)
(* by enqueue and by recover, the passes of recover's loop since the     *)
(* recovery began, and whether the assertions of the test                *)
(* held so far, in the calls that returned                               *)
JT0 == [phase |-> "init", nE |-> 0, nD |-> 0, fill |-> FALSE, left |-> 0,
        enq |-> 0, deq |-> 0, garbage |-> 0, attempts |-> 0, rretry |-> 0,
        rsteps |-> 0,
        fifo |-> TRUE, peek_ok |-> TRUE, garbage_ok |-> TRUE,
        root_ok |-> TRUE, resume_ok |-> TRUE, ok |-> TRUE]

(***************************************************************************)
(* Journal configuration                                                   *)
(***************************************************************************)
header_size == 16

RECURSIVE choose_ppc_loop(_, _, _, _, _)
choose_ppc_loop(total_meta, ppc, meta_size, max_meta, max) ==
  IF ppc >= max THEN ppc
  ELSE IF 2 * total_meta + meta_size > max_meta THEN ppc
  ELSE choose_ppc_loop(2 * total_meta + meta_size, ppc + 1, meta_size,
                       max_meta, max)

(* the pages here are large enough for the header and the cookie, so   *)
(* max_meta does not wrap below zero                                   *)
choose_ppc(cookie_size, meta_size, log2_page_size, max) ==
  choose_ppc_loop(meta_size, 1, meta_size,
                  Pow2(log2_page_size) - header_size - cookie_size, max)

(* Journal<log2_page_size, log2_ppb, meta_size, cookie_size>::config *)
make_config(log2_page_size, log2_ppb, meta_size, cookie_size) ==
  [log2_page_size |-> log2_page_size, log2_ppb |-> log2_ppb,
   meta_size |-> meta_size, cookie_size |-> cookie_size,
   log2_ppc |-> choose_ppc(cookie_size, meta_size, log2_page_size, 6)]

(* the journal of the tests: 512-byte pages, 132-byte metadata and a   *)
(* 4-byte cookie                                                       *)
TestConfig == make_config(9, Log2Ppb, 132, 4)

(* the chip after reset and the objects after construction; crashes is *)
(* the number of power losses the run has had                          *)
InitState(crashes) ==
  /\ nand = SimReset
  /\ journal = reset_journal
  /\ count = 0
  /\ g = G0
  /\ mode = "run"
  /\ shadow = [s \in Sectors |-> [d |-> DataFF, by |-> "init"]]
  /\ last = [op |-> "init", s |-> 0, err |-> "none", abort |-> "none",
             crashed |-> FALSE, after_sync |-> FALSE, pre |-> NoSnap]
  /\ nscript = 0
  /\ nops = 0
  /\ nfaults = 0
  /\ ncrash = crashes
  /\ jt = JT0

InitObjects == InitState(0)

Init ==
  /\ config = TestConfig
  /\ InitObjects

(* payload of the next write: never the payload of an earlier one *)
NextData == nscript + nops + 1

PowerChoices == {-1} \cup (1 .. MaxPower)

(* the machine a call starts from, with pw operations of power left *)
Start(pw) == [M EXCEPT !.nand.power = pw]

(* a call ran to m: publish the state it leaves                          *)
(*   dead: the process did not survive (power loss, or the chip aborted) *)
Finish(m, op, s, pw, sh, pre, scripted) ==
  LET dead == pw >= 0 \/ m.nand.abort # "none"
      fatal == m.err \notin {"none", "map_full"}
  IN /\ pw >= 0 => (ncrash < MaxCrashes /\ m.nand.power = 0)
     /\ nand' = [m.nand EXCEPT !.power = -1, !.abort = "none"]
     /\ journal' = IF dead THEN reset_journal ELSE m.j
     /\ count' = IF dead THEN 0 ELSE m.count
     /\ g' = m.g
     /\ mode' = IF dead \/ fatal THEN "off" ELSE "run"
     /\ shadow' = sh
     /\ last' = [op |-> op, s |-> s, err |-> m.err, abort |-> m.nand.abort,
                 crashed |-> (pw >= 0), after_sync |-> FALSE, pre |-> pre]
     /\ nscript' = IF scripted THEN nscript + 1 ELSE nscript
     /\ nops' = IF scripted THEN nops ELSE nops + 1
     /\ ncrash' = IF pw >= 0 THEN ncrash + 1 ELSE ncrash
     /\ UNCHANGED <<nfaults, jt, config>>

ShadowWrite(m, s, d) ==
  [shadow EXCEPT ![s] = [d |-> IF m.err = "none" THEN d ELSE Unknown,
                         by |-> "write"]]

ShadowTrim(m, s) ==
  [shadow EXCEPT ![s] = [d |-> IF m.err = "none" THEN DataFF ELSE Unknown,
                         by |-> "trim"]]

(* the scripted workload that ages the chip before the explored calls: *)
(* call k is a trim, a sync or a write, by k                           *)
ScriptSector(k) == k % (MaxSector + 1)

Script ==
  LET k == nscript + 1
  IN /\ mode = "run" /\ nops = 0 /\ nfaults = 0 /\ nscript < MaxScript
     /\ IF k % 4 = 0
        THEN LET s == ScriptSector(k \div 4)
                 m == MapTrim(M, s)
             IN Finish(m, "trim", s, -1, ShadowTrim(m, s), Snap(M), TRUE)
        ELSE IF k % 7 = 0
        THEN Finish(MapSync(M), "sync", 0, -1, shadow, NoSnap, TRUE)
        ELSE LET s == ScriptSector(k)
                 m == MapWrite(M, s, NextData)
             IN Finish(m, "write", s, -1, ShadowWrite(m, s, NextData), NoSnap, TRUE)

CanCall == mode = "run" /\ nops < MaxOps

Write ==
  \E s \in Sectors, pw \in PowerChoices :
    /\ CanCall
    /\ LET m == MapWrite(Start(pw), s, NextData)
       IN Finish(m, "write", s, pw, ShadowWrite(m, s, NextData), NoSnap, FALSE)

(* write(SECTOR_NONE, data); the caller then looks at every sector again *)
WriteNone ==
  /\ CanCall
  /\ LET m == MapWrite(M, sector_none, NextData)
     IN Finish(m, "write_none", 0, -1,
               [s \in Sectors |-> [d |-> MapRead(m, s), by |-> "write_none"]],
               Snap(M), FALSE)

(* the end of the epoch roll-over test: after a resume() that found the  *)
(* head by wrapping past the end of the chip, two sectors are written,   *)
(* the map is synced and resumed again                                   *)
Sound(m) == m.err = "none" /\ m.nand.abort = "none"

epoch_test(m, d) ==
  Bind(MapWrite(m, 0, d), LAMBDA m1 :
    IF ~Sound(m1) THEN m1
    ELSE Bind(MapWrite(m1, 1, d + 1), LAMBDA m2 :
      IF ~Sound(m2) THEN m2
      ELSE Bind(MapSync(m2), LAMBDA m3 :
        IF ~Sound(m3) THEN m3 ELSE MapResume(m3))))

EpochTest ==
  /\ CanCall
  /\ last.op = "resume" /\ last.err = "none"
  /\ journal.head = 0 /\ journal.epoch > 0
  /\ \A b \in Blocks :
       ~nand.bad_mark[b] /\ ~nand.failed[b] /\ nand.timebomb[b] = 0
  /\ LET m == epoch_test(M, NextData)
     IN Finish(m, "epoch_test", 0, -1,
               [shadow EXCEPT
                  ![0] = [d |-> IF m.err = "none" THEN NextData ELSE Unknown,
                          by |-> "write"],
                  ![1] = [d |-> IF m.err = "none" THEN NextData + 1 ELSE Unknown,
                          by |-> "write"]],
               NoSnap, FALSE)

Trim ==
  \E s \in Sectors, pw \in PowerChoices :
    /\ CanCall
    /\ LET m == MapTrim(Start(pw), s)
       IN Finish(m, "trim", s, pw, ShadowTrim(m, s), Snap(M), FALSE)

(* what the caller saw before copy_sector(src, dst) *)
CopySnap(m, src) == [src |-> src] @@ Snap(m)

CopySector ==
  \E src \in Sectors, dst \in Sectors :
    /\ CanCall
    /\ LET m == copy_sector(M, src, dst)
       IN Finish(m, "copy_sector", dst, -1,
                 [shadow EXCEPT ![dst] =
                     [d |-> IF m.err = "none" THEN shadow[src].d ELSE Unknown,
                      by |-> "copy"]],
                 CopySnap(M, src), FALSE)

Gc ==
  \E pw \in PowerChoices :
    /\ CanCall
    /\ Finish(MapGc(Start(pw)), "gc", 0, pw, shadow, NoSnap, FALSE)

Sync ==
  \E pw \in PowerChoices :
    /\ CanCall
    /\ Finish(MapSync(Start(pw)), "sync", 0, pw, shadow, NoSnap, FALSE)

Clear ==
  /\ CanCall
  /\ Finish(Ret(MapClear(M), "none"), "clear", 0, -1,
            [s \in Sectors |-> [d |-> DataFF, by |-> "clear"]], NoSnap, FALSE)

(* resume(): on a live object, or as the first call after a restart *)
Resume ==
  /\ (mode = "run" /\ nops < MaxOps) \/ mode = "off"
  /\ LET m == MapResume(M)
     IN /\ nand' = [m.nand EXCEPT !.abort = "none"]
        /\ journal' = m.j
        /\ count' = m.count
        /\ g' = m.g
        /\ mode' = IF m.nand.abort # "none" THEN "halt" ELSE "run"
        /\ shadow' = [s \in Sectors |-> [d |-> MapRead(m, s), by |-> "resume"]]
        /\ last' = [op |-> "resume", s |-> 0, err |-> m.err,
                    abort |-> m.nand.abort,
                    crashed |-> (mode = "off" /\ last.crashed),
                    after_sync |-> (mode = "run" /\ last.op = "sync"
                                    /\ last.err = "none"),
                    pre |-> IF mode = "run" THEN Snap(M) ELSE NoSnap]
        /\ nops' = IF mode = "run" THEN nops + 1 ELSE nops
        /\ UNCHANGED <<nscript, nfaults, ncrash, jt, config>>

(* SimNand::inject_bad and SimNand::inject_timebombs, called by the      *)
(* tests right after SimNand::reset: a block bad from the factory (or,   *)
(* with a larger count, the first blocks of the chip or every block of   *)
(* it), or a block that fails after InjectTtl more erases and programs   *)
Pristine ==
  /\ nscript = 0 /\ nops = 0 /\ nfaults = 0 /\ mode = "run"
  /\ \A b \in Blocks : ~nand.bad_mark[b] /\ ~nand.failed[b] /\ nand.timebomb[b] = 0
  /\ last.op = "init"

InjectBlock == 1
InjectTtl == 5

InjectBad ==
  \E bs \in {{b} : b \in 0 .. InjectBlock} \cup {0 .. InjectBlock, Blocks} :
    /\ Pristine
    /\ nand' = [nand EXCEPT !.bad_mark = [b \in Blocks |-> b \in bs],
                            !.failed = [b \in Blocks |-> b \in bs]]
    /\ UNCHANGED <<journal, count, g, mode, shadow, last, nscript, nops,
                   nfaults, ncrash, jt, config>>

(* inject_timebombs follows inject_bad in the tests: the block armed is  *)
(* one inject_bad left alone                                             *)
InjectTimebombs ==
  /\ nscript = 0 /\ nops = 0 /\ nfaults = 0 /\ mode = "run" /\ last.op = "init"
  /\ \A b \in Blocks : nand.timebomb[b] = 0
  /\ ~nand.bad_mark[InjectBlock]
  /\ nand' = [nand EXCEPT !.timebomb[InjectBlock] = InjectTtl]
  /\ UNCHANGED <<journal, count, g, mode, shadow, last, nscript, nops,
                 nfaults, ncrash, jt, config>>

(* SimNand::set_timebomb, called by the tests: the block fails at its   *)
(* ttl-th erase or program from now.  Only the blocks the journal is    *)
(* about to write are armed.                                            *)
FaultBlocks == {journal.head \div Ppb, next_block(journal.head \div Ppb)}

SetTimebomb ==
  \E b \in FaultBlocks, ttl \in 1 .. MaxTtl :
    /\ CanCall /\ nfaults < MaxFaults
    /\ ~nand.failed[b] /\ nand.timebomb[b] = 0
    /\ nand' = [nand EXCEPT !.timebomb[b] = ttl]
    /\ nfaults' = nfaults + 1
    /\ nops' = nops + 1
    /\ UNCHANGED <<journal, count, g, mode, shadow, last, nscript, ncrash, jt, config>>

(* the workload goes on after a sync that met a failing block: one sector *)
(* is rewritten again and again, so that the journal moves on around the *)
(* chip while the other sectors are left alone                           *)
Hammer ==
  \E s \in Sectors :
    /\ mode = "run" /\ nfaults > 0
    /\ nops >= MaxOps /\ nops < MaxOps + MaxHammer
    /\ \/ nops = MaxOps /\ last.op = "sync" /\ last.err = "none"
       \/ nops > MaxOps /\ s = last.s
    /\ Bind(MapWrite(M, s, NextData), LAMBDA m :
         Finish(m, "write", s, -1, ShadowWrite(m, s, NextData), NoSnap, FALSE))

(* the rewrites done, the caller collects garbage by hand *)
HammerWrites == 4

HammerGc ==
  /\ mode = "run" /\ nfaults > 0
  /\ nops >= MaxOps + HammerWrites /\ nops < MaxOps + MaxHammer
  /\ last.op \in {"write", "gc"}
  /\ Finish(MapGc(M), "gc", last.s, -1, shadow, NoSnap, FALSE)

Next ==
  \/ Script
  \/ Write
  \/ WriteNone
  \/ EpochTest
  \/ Trim
  \/ CopySector
  \/ Gc
  \/ Sync
  \/ Clear
  \/ Resume
  \/ SetTimebomb
  \/ InjectBad
  \/ InjectTimebombs
  \/ Hammer
  \/ HammerGc

Spec == Init /\ [][Next]_vars

(***************************************************************************)
(* The runs explored.  The script ages the chip; the calls explored begin  *)
(* after one of ScriptStops scripted calls; one call is explored (power    *)
(* may be lost in it), and the calls that follow it look at what it left.  *)
(***************************************************************************)
ScriptStops == {0, 1, 2, 3, 5, 7, 17, 18, 20}

Exploring == nops > 0 \/ nscript \in ScriptStops

(* no call of the map has been explored yet: arming a timebomb is not a  *)
(* call of the map                                                       *)
FirstCall == Exploring /\ nops = nfaults

(* the calls of the map on a chip without failing blocks *)
NextCalls ==
  \/ Script
  \/ FirstCall /\ Write
  \/ FirstCall /\ WriteNone
  \/ FirstCall /\ Trim
  \/ FirstCall /\ CopySector
  \/ FirstCall /\ Sync
  \/ FirstCall /\ Clear
  \/ Exploring /\ Gc
  \/ Exploring /\ Resume
  \/ Exploring /\ EpochTest

SpecCalls == Init /\ [][NextCalls]_vars

(* the calls of the map on a chip with blocks that are bad or that fail, *)
(* with power kept on                                                    *)
InitFaults ==
  /\ config = TestConfig
  /\ InitState(MaxCrashes)

NextFaults ==
  \/ InjectBad
  \/ InjectTimebombs
  \/ Script
  \/ FirstCall /\ SetTimebomb
  \/ FirstCall /\ Write
  \/ FirstCall /\ Trim
  \/ FirstCall /\ Sync
  \/ Exploring /\ Resume

SpecFaults == InitFaults /\ [][NextFaults]_vars

(* a block fails during a sync(), and the workload goes on *)
NextHammer ==
  \/ Script
  \/ FirstCall /\ SetTimebomb
  \/ FirstCall /\ nfaults > 0 /\ Sync
  \/ Hammer
  \/ HammerGc

SpecHammer == InitFaults /\ [][NextHammer]_vars

(***************************************************************************)
(* The journal tests: TestJournalBase driven as tests-c++/journal.cpp and  *)
(* the fill test drive it, one Journal call per step                       *)
(***************************************************************************)
MaxEnq == 34
MaxBatch == 5
MaxJTtl == 9

IdMeta(id) == [BlankMeta EXCEPT !.id = id]

JFinish(m, op, newjt) ==
  /\ nand' = [m.nand EXCEPT !.abort = "none"]
  /\ journal' = m.j
  /\ g' = m.g
  /\ mode' = IF m.nand.abort # "none" \/ ~newjt.ok THEN "halt" ELSE "run"
  /\ last' = [last EXCEPT !.op = op, !.err = m.err, !.abort = m.nand.abort]
  /\ jt' = newjt
  /\ UNCHANGED <<count, shadow, nscript, nops, nfaults, ncrash, config>>

JIdle == mode = "run" /\ ~in_recovery(journal) /\ jt.attempts = 0

(* main: the counts handed to enqueue_sequence and dequeue_sequence (a *)
(* batch of TotalPages is "enqueue until the journal is full"), and    *)
(* the byte the test stores in the cookie before it enqueues           *)
JStart ==
  \E nE \in (1 .. MaxBatch) \cup {TotalPages}, nD \in 1 .. MaxBatch,
     fill \in BOOLEAN :
    /\ jt.phase = "init" /\ mode = "run" /\ nscript = 0 /\ nops = 0
    /\ nD <= nE
    /\ nE = TotalPages => (nD = MaxBatch /\ fill)
    /\ jt' = [jt EXCEPT !.phase = "enq", !.nE = nE,
                        !.nD = IF nE = TotalPages THEN TotalPages ELSE nD,
                        !.fill = fill, !.left = nE]
    /\ journal' = [journal EXCEPT !.buf.cookie = nD]
    /\ UNCHANGED <<nand, count, g, mode, shadow, last, nscript,
                   nops, nfaults, ncrash, config>>

(* the enqueue batch is over: dequeue_sequence starts, garbage_count zero *)
ToDequeue(t) ==
  [t EXCEPT !.phase = "deq", !.left = Min(t.nD, t.enq - t.deq),
            !.garbage = 0, !.attempts = 0]

(* one pass of the loop of TestJournalBase::enqueue, and the assertion *)
(* enqueue_sequence makes on the root after a success                  *)
enqueue_done(m) ==
  Bind(m.nand.abort # "none" \/ read_meta(m, m.j.root).val.id = jt.enq,
       LAMBDA same :
  Bind([jt EXCEPT !.enq = @ + 1, !.attempts = 0, !.left = @ - 1,
                  !.root_ok = same, !.ok = same], LAMBDA t :
    IF t.left = 0 \/ t.enq = MaxEnq THEN ToDequeue(t) ELSE t))

JEnqueue ==
  /\ mode = "run" /\ ~in_recovery(journal)
  /\ jt.phase = "enq" /\ jt.enq < MaxEnq /\ jt.attempts < MaxRetries
  /\ ~(jt.fill /\ jt.deq = jt.enq /\ journal.tail_sync # journal.tail)
  /\ Bind(JournalEnqueue(M, jt.enq + 1, IdMeta(jt.enq)), LAMBDA m :
       JFinish(m, "jenqueue",
         IF m.err = "none" THEN enqueue_done(m)
         ELSE IF m.err = "recover"
         THEN [jt EXCEPT !.attempts = @ + 1, !.rretry = 0, !.rsteps = 0]
         ELSE IF m.err = "journal_full" THEN ToDequeue(jt)
         ELSE [jt EXCEPT !.ok = FALSE]))

(* one pass of the loop of TestJournalBase::recover *)
recover_step(m, p) ==
  IF p = page_none THEN JournalEnqueueFiller(m)
  ELSE Bind(read_meta(m, p), LAMBDA r : JournalCopy(r, p, r.val))

JRecover ==
  /\ mode = "run" /\ in_recovery(journal)
  /\ Bind(next_recoverable(M), LAMBDA m1 :
     Bind(recover_step(m1, m1.val), LAMBDA m :
       JFinish(m, "jrecover",
         IF m.err = "none" THEN [jt EXCEPT !.rsteps = @ + 1]
         ELSE IF m.err = "recover"
         THEN [jt EXCEPT !.rsteps = @ + 1, !.rretry = @ + 1,
                         !.ok = jt.rretry + 1 < MaxRetries]
         ELSE [jt EXCEPT !.rsteps = @ + 1, !.ok = FALSE])))

(* one pass of the loop of TestJournalBase::dequeue_sequence *)
dequeue_check(m, tail, id) ==
  IF m.nand.abort # "none" THEN jt
  ELSE IF id = sector_none
  THEN [jt EXCEPT !.garbage = @ + 1,
                  !.garbage_ok = jt.garbage + 1 < Ppc,
                  !.ok = jt.garbage + 1 < Ppc]
  ELSE Bind(id = jt.deq /\ NandRead(m, tail).d = jt.deq + 1, LAMBDA same :
         [jt EXCEPT !.garbage = 0, !.deq = @ + 1, !.fifo = same, !.ok = same,
                    !.left = IF jt.left = 1 THEN jt.nE ELSE @ - 1,
                    !.phase = IF jt.left = 1 THEN "enq" ELSE @])

JDequeue ==
  /\ JIdle /\ jt.phase = "deq" /\ jt.left > 0
  /\ Bind(JournalPeek(M), LAMBDA m1 :
       IF m1.val = page_none
       THEN JFinish(m1, "jdequeue", [jt EXCEPT !.peek_ok = FALSE, !.ok = FALSE])
       ELSE Bind(read_meta(m1, m1.val), LAMBDA m2 :
              JFinish(JournalDequeue(m2), "jdequeue",
                      dequeue_check(m2, m1.val, m2.val.id))))

(* suspend_resume and the cookie assertion of main, once an enqueue or *)
(* a recovery step has programmed a checkpoint and left the journal   *)
(* clean                                                              *)
JSuspendResume ==
  /\ mode = "run" /\ ~in_recovery(journal) /\ is_clean(journal)
  /\ last.op \in {"jenqueue", "jrecover"} /\ last.err = "none"
  /\ Bind(JournalResume(JournalClear(M)), LAMBDA m :
     Bind(m.err = "none" /\ m.j.root = journal.root
          /\ m.j.tail = journal.tail /\ m.j.head = journal.head
          /\ m.j.buf.cookie = journal.buf.cookie, LAMBDA same :
       JFinish(m, "jresume", [jt EXCEPT !.resume_ok = same, !.ok = same])))

(* do_tail_sync, called by the fill test once the journal is drained *)
JTailSync ==
  /\ JIdle /\ jt.fill /\ jt.phase = "enq" /\ jt.deq = jt.enq
  /\ journal.tail_sync # journal.tail
  /\ JFinish([M EXCEPT !.j.tail_sync = journal.tail], "jtailsync", jt)

(* inject_bad, inject_failed and inject_timebombs, right after reset *)
JInjectBad ==
  \E b \in Blocks :
    /\ Pristine /\ jt.phase = "init"
    /\ nand' = [nand EXCEPT !.bad_mark[b] = TRUE, !.failed[b] = TRUE]
    /\ last' = [last EXCEPT !.op = "inject"]
    /\ UNCHANGED <<journal, count, g, mode, shadow, nscript, nops, nfaults,
                   ncrash, jt, config>>

JInjectFailed ==
  \E b \in Blocks :
    /\ Pristine /\ jt.phase = "init"
    /\ nand' = [nand EXCEPT !.failed[b] = TRUE]
    /\ last' = [last EXCEPT !.op = "inject"]
    /\ UNCHANGED <<journal, count, g, mode, shadow, nscript, nops, nfaults,
                   ncrash, jt, config>>

JInjectTimebomb ==
  \E b \in Blocks, ttl \in 1 .. MaxJTtl :
    /\ Pristine /\ jt.phase = "init"
    /\ nand' = [nand EXCEPT !.timebomb[b] = ttl]
    /\ last' = [last EXCEPT !.op = "inject"]
    /\ UNCHANGED <<journal, count, g, mode, shadow, nscript, nops, nfaults,
                   ncrash, jt, config>>

NextJ ==
  \/ JStart
  \/ JEnqueue
  \/ JRecover
  \/ JDequeue
  \/ JSuspendResume
  \/ JTailSync
  \/ JInjectBad
  \/ JInjectFailed
  \/ JInjectTimebomb

SpecJ == Init /\ [][NextJ]_vars

(***************************************************************************)
(* Instantiation of the Journal template: the template arguments are drawn *)
(* from the sets below, and the construction computes config with          *)
(* choose_ppc.  log2_ppc = 0 marks a configuration not yet computed.       *)
(***************************************************************************)
MinLog2PageSize == 6
MaxLog2PageSize == 12
MaxLog2Ppb == 8
MetaSizes == {4, 16, 32, 100, 132, 200, 500}
CookieSizes == {0, 4, 16}

TemplateArguments ==
  [log2_page_size : MinLog2PageSize .. MaxLog2PageSize,
   log2_ppb : 0 .. MaxLog2Ppb,
   meta_size : MetaSizes, cookie_size : CookieSizes, log2_ppc : {0}]

InitConfig ==
  /\ config \in TemplateArguments
  /\ InitObjects

Construct ==
  /\ config.log2_ppc = 0
  /\ config' = make_config(config.log2_page_size, config.log2_ppb,
                           config.meta_size, config.cookie_size)
  /\ UNCHANGED <<nand, journal, count, g, mode, shadow, last, nscript, nops,
                 nfaults, ncrash, jt>>

NextConfig == Construct

SpecConfig == InitConfig /\ [][NextConfig]_vars

(***************************************************************************)
(* Properties of the map                                                   *)
(***************************************************************************)
FaultMet == \E b \in Blocks : nand.bad_mark[b] /\ nfaults > 0

(* C1: map round-trip.  Once write(s, D) has returned success, read(s)    *)
(* returns D until the next write, trim or copy_sector that targets s or  *)
(* a clear, whatever calls on other sectors, gc(), sync() and bad-block   *)
(* recoveries happen in between.                                          *)
C1_RoundTrip ==
  mode = "run" =>
    \A s \in Sectors :
      (shadow[s].by = "write" /\ shadow[s].d # Unknown)
        => MapRead(M, s) = shadow[s].d

(* C2: crash consistency.  With at least one checkpoint programmed, a     *)
(* resume() that follows a power loss succeeds, root() is the last user   *)
(* page covered by the last checkpoint programmed with success, and every *)
(* sector mapped at that checkpoint is read with the content it had then. *)
C2_CrashConsistency ==
  (last.op = "resume" /\ last.crashed /\ g.ck) =>
    /\ last.err = "none" /\ last.abort = "none"
    /\ journal.root = g.ck_root
    /\ \A s \in Sectors :
         g.ck_view[s] # DataFF => MapRead(M, s) = g.ck_view[s]

(* C3, as stated: after a sync() that returned success, with no call in   *)
(* between, resume() succeeds and observes the same root, head, tail and  *)
(* count, and the same find/read result for every sector.                 *)
C3_AsStated ==
  (last.op = "resume" /\ last.after_sync) =>
    /\ last.err = "none" /\ last.abort = "none"
    /\ journal.root = last.pre.root /\ journal.head = last.pre.head
    /\ journal.tail = last.pre.tail
    /\ count = last.pre.count
    /\ MapView(M) = last.pre.view
    /\ \A s \in Sectors : (MapFind(M, s).err = "none") = last.pre.found[s]

(* C3, with the tail as the code keeps it: durability after sync.  On a   *)
(* chip that holds a checkpoint,                                          *)
(* after a sync() that returned success, with no call in between,         *)
(* resume() succeeds and observes the same root, head and count and the   *)
(* same find/read result for every sector; the tail it observes is the    *)
(* one the last checkpoint recorded: the tail before the resume, or the   *)
(* user page before it.                                                   *)
C3_DurableAfterSync ==
  (last.op = "resume" /\ last.after_sync /\ g.ck) =>
    /\ last.err = "none" /\ last.abort = "none"
    /\ journal.root = last.pre.root /\ journal.head = last.pre.head
    /\ journal.tail = last.pre.tail \/ next_upage(journal.tail) = last.pre.tail
    /\ count = last.pre.count
    /\ MapView(M) = last.pre.view
    /\ \A s \in Sectors : (MapFind(M, s).err = "none") = last.pre.found[s]

(* a resume right after a sync of a map that holds sectors, which finds   *)
(* the tail one user page before the tail the sync left in RAM            *)
C3_Witness ==
  /\ last.op = "resume" /\ last.after_sync /\ g.ck /\ last.err = "none"
  /\ count > 0
  /\ journal.tail # last.pre.tail

(* C4: trim.  After trim(s) returned success, find(s) returns NotFound    *)
(* and read(s) a page of 0xff, whether or not s was mapped; a trim of a   *)
(* sector that is not mapped changes neither count nor any mapping.       *)
C4_Trim ==
  (last.op = "trim" /\ last.err = "none" /\ mode = "run") =>
    /\ MapFind(M, last.s).err = "not_found"
    /\ MapRead(M, last.s) = DataFF
    /\ ~last.pre.found[last.s] =>
         /\ count = last.pre.count
         /\ MapView(M) = last.pre.view
         /\ \A s \in Sectors : (MapFind(M, s).err = "none") = last.pre.found[s]

(* a trim of a mapped sector that left other sectors mapped *)
C4_Witness ==
  /\ last.op = "trim" /\ last.err = "none" /\ mode = "run"
  /\ last.pre.found[last.s]
  /\ count > 0 /\ count = last.pre.count - 1

(* C5: count invariant.  After every Map call that returns, count equals  *)
(* the number of nodes naming a sector that the recursive alt-pointer     *)
(* walk from root() reaches.                                              *)
C5_Count ==
  mode = "run" => count = MapCheck(M).mapped

(* C6: live region.  After every Map call, every page reachable from      *)
(* root() through alt-pointers is a user page whose offset from tail is   *)
(* smaller than the offset of head, and every child is older than its     *)
(* parent.                                                                *)
C6_LiveRegion ==
  mode = "run" => MapCheck(M).live

(* C7: radix consistency.  Every node reachable from root() at depth d    *)
(* stores a sector id whose first d bits are those the path implies, and  *)
(* trace_path for a mapped sector ends at a node that stores that sector. *)
C7_Radix ==
  mode = "run" =>
    /\ MapCheck(M).radix
    /\ \A s \in Sectors :
         MapFind(M, s).err = "none"
           => read_meta(M, MapFind(M, s).page).val.id = s

(* C8: journal FIFO order.  The non-garbage pages seen at the tail carry   *)
(* the enqueued ids in enqueue order, each once, with the payload that was *)
(* enqueued; peek never returns page_none while enqueued pages remain; and *)
(* fewer than Ppc consecutive peeked pages carry a garbage id: whatever    *)
(* the batches, across wrap-around, whatever blocks are bad or fail.       *)
C8_Fifo == jt.fifo /\ jt.peek_ok /\ jt.garbage_ok

(* jtutil.cpp, check_upage: a page below the chip's end that is not the *)
(* last page of its checkpoint group                                    *)
check_upage(p) == (p + 1) % Ppc # 0 /\ p < TotalPages

(* C9: immediately after every enqueue(data, meta) or copy(p, meta) that   *)
(* returned success, read_meta(root()) returns the meta just passed in,    *)
(* whether or not the call programmed a checkpoint, wrapped around the     *)
(* chip, skipped bad blocks or was a retry after a recovery.               *)
C9_RootMeta == g.root_meta_ok /\ jt.root_ok

C9_Witness ==
  /\ last.op = "jenqueue" /\ last.err = "none" /\ last.abort = "none"
  /\ jt.root_ok /\ g.root_meta_ok
  /\ journal.epoch > 0 /\ journal.bb_current > 0 /\ ~journal.dirty

(* C10: alignment.  In every state between journal calls (after resume,    *)
(* enqueue, copy, peek, dequeue, clear and after each step of a recovery)  *)
(* head, tail and tail_sync are user pages: below the chip's end and not   *)
(* the last page of their checkpoint group.                                *)
C10_Alignment ==
  /\ check_upage(journal.head)
  /\ check_upage(journal.tail)
  /\ check_upage(journal.tail_sync)

C10_Witness ==
  /\ last.op = "jrecover" /\ last.err = "none" /\ last.abort = "none"
  /\ in_recovery(journal) /\ journal.epoch > 0
  /\ C10_Alignment

(* distance from page b forward around the ring of pages to page a *)
RingSub(a, b) == (a - b + TotalPages) % TotalPages

(* C11: ordering.  In every state between journal calls, going forward     *)
(* around the ring from tail_sync one meets tail no later than head:       *)
(* (head - tail_sync) mod TotalPages >= (tail - tail_sync) mod TotalPages. *)
C11_Ordering ==
  RingSub(journal.head, journal.tail_sync)
    >= RingSub(journal.tail, journal.tail_sync)

(* the head has wrapped around the chip and lies below tail_sync, with    *)
(* the tail strictly between the two                                      *)
C11_Witness ==
  /\ journal.epoch > 0 /\ journal.head < journal.tail_sync
  /\ journal.tail # journal.tail_sync /\ journal.tail # journal.head
  /\ C11_Ordering

(* C12: root.  In every state between journal calls, in recovery and after *)
(* an enqueue or copy returned recover, journal_full or too_bad included:  *)
(* if head # tail then root() is a user page nearer to the tail than the   *)
(* head is, and if head = tail then root() is page_none.                   *)
C12_Root ==
  IF journal.head # journal.tail
  THEN /\ check_upage(journal.root)
       /\ RingSub(journal.root, journal.tail)
            < RingSub(journal.head, journal.tail)
  ELSE journal.root = page_none

(* the pages at or after tail_sync that the journal held before a call *)
(* and still holds after it                                            *)
HeldPages ==
  {p \in Pages :
     /\ RingSub(p, journal.tail_sync) < RingSub(journal.head, journal.tail_sync)
     /\ RingSub(p, journal'.tail_sync) < RingSub(journal.head, journal'.tail_sync)}

(* C13: the head never rolls onto the block of tail_sync.  In every state, *)
(* if head and tail_sync lie in the same block then head >= tail_sync; and *)
(* no call erases (or programs) a page the journal holds at or after       *)
(* tail_sync: the call fails with journal_full instead.                    *)
C13_NoRollOnto ==
  /\ [](journal.head \div Ppb = journal.tail_sync \div Ppb
          => journal.head >= journal.tail_sync)
  /\ [][mode' = "run" => \A p \in HeldPages : nand'.pages[p] = nand.pages[p]]_vars

(* an enqueue refused with journal_full after the head went around the *)
(* chip and reached the block before the one of tail_sync              *)
C13_Witness ==
  /\ last.op = "jenqueue" /\ last.err = "journal_full" /\ last.abort = "none"
  /\ journal.epoch > 0
  /\ next_block(journal.head \div Ppb) = journal.tail_sync \div Ppb

C15_ProgOrder == last.abort # "prog_out_of_order"

(* C16: the library never erases or programs a block for which mark_bad    *)
(* has been called: it checks is_bad before the erase at a block-aligned   *)
(* head, and marks a failed block bad only once the head has left it.      *)
C16_NoBadBlockUse == last.abort \notin {"erase_bad_marked", "prog_bad_marked"}

(* a write that succeeded after the journal went around a chip with two *)
(* blocks marked bad, one of them by the library                        *)
C16_Witness ==
  /\ last.op = "write" /\ last.err = "none" /\ last.abort = "none"
  /\ mode = "run" /\ journal.epoch > 0
  /\ \E b1 \in Blocks, b2 \in Blocks :
       b1 # b2 /\ nand.bad_mark[b1] /\ nand.bad_mark[b2]

(* C17: a recovery driven by the protocol (next_recoverable, then copy  *)
(* or a filler enqueue, continued on another Recover) completes: while  *)
(* fewer than MaxRetries further failures have occurred, no pass ends   *)
(* in a simulator abort or in an error other than Recover, and the      *)
(* recovery takes at most one block's worth of passes per restart       *)
C17_RecoveryCompletes ==
  (last.op = "jrecover" /\ jt.rretry < MaxRetries) =>
    /\ last.abort = "none"
    /\ last.err \in {"none", "recover"}
    /\ jt.rsteps <= (jt.rretry + 1) * Ppb

AllBad == \A b \in Blocks : nand.bad_mark[b]

JournalIsReset ==
  /\ journal.head = 0 /\ journal.tail = 0 /\ journal.tail_sync = 0
  /\ journal.root = page_none /\ journal.epoch = 0
  /\ ~journal.dirty /\ ~journal.bad_meta
  /\ ~journal.recovery /\ ~journal.enum_done
  /\ journal.recover_next = page_none /\ journal.recover_root = page_none
  /\ journal.recover_meta = page_none

(* C18: a resume that fails returns too_bad, leaves the journal in the  *)
(* empty reset state and the map's count at 0; on a chip whose blocks   *)
(* are all marked bad resume fails in this way, and no call erases or   *)
(* programs anything (on such a chip every erase and every program      *)
(* would stop the simulator, and the pages stay as they were)           *)
C18_FailedResume ==
  /\ []((last.op = "resume" /\ last.err # "none" /\ last.abort = "none") =>
          (last.err = "too_bad" /\ JournalIsReset /\ count = 0))
  /\ []((AllBad /\ last.op = "resume") => last.err = "too_bad")
  /\ [](AllBad => last.abort = "none")
  /\ [][AllBad => (nand'.pages = nand.pages
                   /\ nand'.next_page = nand.next_page)]_vars

(* a resume that failed on an all-bad chip after a write had been       *)
(* refused there                                                        *)
C18_Witness ==
  /\ AllBad /\ last.op = "resume" /\ last.err = "too_bad"
  /\ last.abort = "none" /\ JournalIsReset /\ count = 0
  /\ nscript + nops > 1

Finds(m) == [s \in Sectors |-> MapFind(m, s).err = "none"]

(* a step that is a resume() called on the live object *)
ResumeStep == mode = "run" /\ nops' = nops + 1 /\ last'.op = "resume"

(* a block among the first MaxRetries that is not marked bad and whose   *)
(* first checkpoint page is programmed: what find_checkblock(0) looks for *)
CheckblockInReach ==
  \E b \in Blocks :
    /\ b < MaxRetries /\ ~nand.bad_mark[b]
    /\ nand.pages[b * Ppb + (Ppc - 1)].hdr.magic

SyncAfterSync ==
  /\ mode = "run" /\ last.op = "sync" /\ last.err = "none"
  /\ last'.op = "sync" /\ nops' = nops + 1 /\ nfaults' = nfaults

(* C20: sync is idempotent.  After a sync() that returned success the   *)
(* journal is clean, and a sync() that follows it at once returns       *)
(* success, erases and programs nothing (the chip is left as it was)    *)
(* and leaves head, tail, tail_sync, root, count and the find and read  *)
(* result of every sector unchanged.                                    *)
C20_SyncIdempotent ==
  /\ []((last.op = "sync" /\ last.err = "none" /\ mode = "run") =>
          is_clean(journal))
  /\ [][SyncAfterSync =>
          /\ last'.err = "none" /\ last'.abort = "none" /\ mode' = "run"
          /\ nand' = nand
          /\ journal'.head = journal.head /\ journal'.tail = journal.tail
          /\ journal'.tail_sync = journal.tail_sync
          /\ journal'.root = journal.root
          /\ count' = count
          /\ Finds(M)' = Finds(M) /\ MapView(M)' = MapView(M)]_vars

(* the sync called right after the sync that ends the first seven calls *)
(* of the script, of a map that holds sectors on a chip with a bad      *)
(* block                                                                *)
C20_Witness ==
  /\ last.op = "sync" /\ last.err = "none" /\ last.abort = "none"
  /\ nscript = 7 /\ nops = 1 /\ nfaults = 0
  /\ mode = "run" /\ is_clean(journal) /\ count > 0
  /\ \E b \in Blocks : nand.bad_mark[b]

(* C21: copy_sector(src, dst).  After success, if src was mapped then   *)
(* read(dst) returns what read(src) returned before the call and src is *)
(* as it was; if src was not mapped then dst is not mapped; and         *)
(* copy_sector(s, s) leaves count and the find status and read content  *)
(* of every sector as they were.                                        *)
C21_CopySector ==
  (last.op = "copy_sector" /\ last.err = "none" /\ mode = "run") =>
    /\ last.pre.found[last.pre.src] =>
          /\ MapRead(M, last.s) = last.pre.view[last.pre.src]
          /\ MapRead(M, last.pre.src) = last.pre.view[last.pre.src]
          /\ MapFind(M, last.pre.src).err = "none"
    /\ ~last.pre.found[last.pre.src] => MapFind(M, last.s).err = "not_found"
    /\ last.pre.src = last.s =>
          /\ count = last.pre.count
          /\ MapView(M) = last.pre.view
          /\ Finds(M) = last.pre.found

(* a copy of a mapped sector onto another sector that was not mapped    *)
C21_Witness ==
  /\ last.op = "copy_sector" /\ last.err = "none" /\ last.abort = "none"
  /\ mode = "run" /\ last.pre.src # last.s
  /\ last.pre.found[last.pre.src] /\ ~last.pre.found[last.s]
  /\ MapRead(M, last.s) = last.pre.view[last.pre.src]
  /\ count = last.pre.count + 1

(* a step that is a write or a copy_sector which returned to its caller *)
WriteStep ==
  /\ mode = "run" /\ mode' = "run"
  /\ last'.op \in {"write", "copy_sector"}
  /\ (nops' = nops + 1 \/ nscript' = nscript + 1) /\ nfaults' = nfaults

(* the step stores a page for last'.s: a write, or a copy of a mapped   *)
(* sector (the copy of an unmapped one is a trim)                       *)
StoresPage ==
  \/ last'.op = "write"
  \/ last'.op = "copy_sector" /\ last'.pre.found[last'.pre.src]

C23_SectorNone ==
  (last.op = "write_none" /\ last.abort = "none" /\ mode = "run") =>
    /\ count = last.pre.count
    /\ Finds(M) = last.pre.found
    /\ MapView(M) = last.pre.view

(* a call on the live object that returned, other than resume() *)
CallStep == mode = "run" /\ mode' = "run" /\ last'.op \notin {"resume", "epoch_test"}

(* the head went from the end of the chip to page 0 during the step *)
HeadWrapped == journal'.head < journal.head

PeekAsClaimed(m, r) ==
  /\ (r.val = page_none) <=> (r.j.head = r.j.tail)
  /\ r.val # page_none =>
       /\ r.val = r.j.tail /\ check_upage(r.val)
       /\ \/ r.val \div Ppb = r.j.head \div Ppb
          \/ ~m.nand.bad_mark[r.val \div Ppb]
  /\ RingSub(r.j.tail, m.j.tail) <= MaxRetries * Ppb

(* C25: peek() returns page_none exactly when the journal is empty as   *)
(* it returns; otherwise it returns the tail, a user page in the head's *)
(* block or in a block that is not marked bad, having moved the tail    *)
(* past at most MaxRetries bad blocks.  (peek is called between the     *)
(* calls of the map, as gc() and sync() do at their start.)             *)
C25_Peek == mode = "run" => PeekAsClaimed(M, JournalPeek(M))

DequeueOutsideRecovery(m, r) ==
  IF m.j.head = m.j.tail THEN r.j = m.j
  ELSE /\ r.j.tail = next_upage(m.j.tail)
       /\ r.j.head = m.j.head
       /\ r.j.tail_sync = IF is_clean(m.j) /\ ~in_recovery(m.j)
                          THEN r.j.tail ELSE m.j.tail_sync

MetaPageOf(p) == p - (p % Ppc) + (Ppc - 1)

(* root() is a user page and the meta page of its group holds a         *)
(* checkpoint                                                           *)
RootCheckpointed(n, j) ==
  /\ j.root \in Pages /\ j.root % Ppc # Ppc - 1
  /\ n.pages[MetaPageOf(j.root)].hdr.magic

(* this step programmed a checkpoint with success *)
CheckpointProgrammed ==
  \E p \in Pages :
    /\ p % Ppc = Ppc - 1
    /\ nand'.pages[p] # nand.pages[p] /\ nand'.pages[p].hdr.magic

(* this step of the journal test was an enqueue() or a copy() that      *)
(* returned success                                                     *)
JWriteDone ==
  /\ last'.op \in {"jenqueue", "jrecover"}
  /\ last'.err = "none" /\ last'.abort = "none"

(* C27, as stated: whenever the journal is not empty, root() is a user  *)
(* page whose checkpoint group's meta page has been programmed with     *)
(* success, and root() changes only in a step that programs a           *)
(* checkpoint with success or leaves the journal empty.                 *)
C27_AsStated ==
  [][/\ journal'.head # journal'.tail => RootCheckpointed(nand', journal')
     /\ journal'.root # journal.root =>
          CheckpointProgrammed \/ journal'.head = journal'.tail]_vars

(* C27, with the root as the code keeps it: root() is the last written  *)
(* user page.  Every enqueue() or copy() that returns success moves     *)
(* root() to the user page it wrote (the head is the user page after    *)
(* it), checkpoint or not; and whenever the journal is neither empty    *)
(* nor dirty, root() is a user page whose checkpoint group's meta page  *)
(* has been programmed with success.                                    *)
C27_LastWritten ==
  [][/\ JWriteDone =>
          /\ journal'.root # journal.root
          /\ next_upage(journal'.root) = journal'.head
     /\ (mode' = "run" /\ journal'.head # journal'.tail /\ is_clean(journal'))
          => RootCheckpointed(nand', journal')]_vars

(* an enqueue of the journal test has just completed a checkpoint       *)
(* group, after an earlier one left the root on a page whose group had  *)
(* no checkpoint yet                                                    *)
C27_Witness ==
  /\ last.op = "jenqueue" /\ last.err = "none" /\ last.abort = "none"
  /\ mode = "run" /\ jt.enq >= Ppc - 1
  /\ journal.head # journal.tail /\ is_clean(journal)
  /\ RootCheckpointed(nand, journal)
(* (good_cps * C) - good_cps with                                       *)
(* good_cps = (B - max(bb_last, bb_current) - 1) * (Q / C), in integers *)
CapacityFormula(j) ==
  LET max_bad == IF j.bb_last > j.bb_current THEN j.bb_last ELSE j.bb_current
      good_cps == (NumBlocks - max_bad - 1) * (Ppb \div Ppc)
  IN good_cps * Ppc - good_cps

(* C29: capacity() is (good_cps * C) - good_cps in every reachable      *)
(* state, and no more user pages than the capacity() of the empty       *)
(* journal can be enqueued into it before enqueue() returns             *)
(* journal_full (the journal test has dequeued nothing yet).            *)
C29_Capacity ==
  /\ JournalCapacity(journal) = CapacityFormula(journal)
  /\ (mode = "run" /\ jt.deq = 0) => jt.enq <= JournalCapacity(reset_journal)
(* the user-page positions of the ring from a up to, not including, b *)
UserPagesFrom(a, b) ==
  {p \in Pages : p % Ppc # Ppc - 1 /\ RingSub(p, a) < RingSub(b, a)}

(* C28: size() is the number of user-page positions of the ring from    *)
(* tail_sync up to, not including, head, also when head has wrapped     *)
(* below tail_sync; it is 0 exactly when head = tail_sync.              *)
C28_Size ==
  /\ JournalSize(journal) =
       Cardinality(UserPagesFrom(journal.tail_sync, journal.head))
  /\ JournalSize(journal) = 0 <=> journal.head = journal.tail_sync

(* the head has wrapped below tail_sync, which is in the middle of a    *)
(* checkpoint group, and the journal holds pages                        *)
C28_Witness ==
  /\ journal.head < journal.tail_sync /\ journal.epoch > 0
  /\ journal.tail_sync % Ppc # 0 /\ journal.head % Ppc # 0
  /\ JournalSize(journal) > Ppc
(* this step of the journal test was an enqueue() that returned recover *)
JRecoverReturned == last'.op = "jenqueue" /\ last'.err = "recover"

(* a recover_from() for a bad block, called now outside a recovery,     *)
(* sets the flag exactly when it returns recover, and it does so only   *)
(* at a head that is not block-aligned                                  *)
RecoverFromStarts ==
  (mode = "run" /\ ~in_recovery(journal)) =>
    LET r == recover_from(M, "bad_block")
    IN /\ in_recovery(r.j) <=> r.err = "recover"
       /\ r.err = "recover" => ~is_aligned(journal.head, Log2Ppb)

EnumerationValid(j) ==
  in_recovery(j) =>
    LET p == next_recoverable([M EXCEPT !.j = j]).val
    IN IF j.enum_done THEN p = page_none
       ELSE /\ check_upage(p)
            /\ align_eq(p, j.recover_root, Log2Ppb)
            /\ p <= j.recover_root

(* a pass of the recovery that neither restarted nor ended it took the  *)
(* page next_recoverable() returned: the next call returns the user     *)
(* page after it, or page_none after recover_root was returned          *)
EnumerationAdvances ==
  (in_recovery(journal) /\ in_recovery(journal')
   /\ last'.op = "jrecover" /\ last'.err = "none" /\ last'.abort = "none") =>
    IF journal.enum_done \/ journal.recover_next = journal.recover_root
    THEN journal'.enum_done
    ELSE /\ ~journal'.enum_done
         /\ journal'.recover_next = next_upage(journal.recover_next)
         /\ journal'.recover_next > journal.recover_next

(* C31: once a recovery has started or restarted, next_recoverable()    *)
(* returns the user pages of the failed block from its first page up   *)
(* to recover_root, ascending and each once, and page_none from then    *)
(* on; every page returned is a user page of the chip in the failed     *)
(* block, also when the journal was empty when the failure happened.    *)
C31_Enumeration ==
  [][EnumerationValid(journal') /\ EnumerationAdvances]_vars
(* read_meta(p) succeeds and returns the meta page p was enqueued with: *)
(* the journal test enqueues the payload id + 1 with the meta id, a     *)
(* copy keeps both, and a page that holds no payload has blank meta     *)
MetaAsEnqueued(p) ==
  LET d == NandRead(M, p).d
      r == read_meta(M, p)
  IN /\ r.err = "none" /\ r.nand.abort = "none"
     /\ r.val.id = IF d > 0 THEN d - 1 ELSE sector_none

(* C32: during a recovery, read_meta of the page next_recoverable()     *)
(* returns next is the meta that page was enqueued with, whether it     *)
(* comes from the buffer, from the dumped meta page or from the meta    *)
(* page of the group on the chip.                                       *)
C32_BufferedMeta ==
  (mode = "run" /\ in_recovery(journal) /\ ~journal.enum_done) =>
    MetaAsEnqueued(next_recoverable(M).val)
(* this step is an enqueue() of the journal test, called outside a      *)
(* recovery with the head on the first page of a block that is not      *)
(* marked bad, and the erase or the program of that page failed         *)
FirstPageFailure ==
  /\ mode = "run" /\ ~in_recovery(journal) /\ jt.phase = "enq"
  /\ is_aligned(journal.head, Log2Ppb)
  /\ last'.op = "jenqueue"
  /\ ~nand.bad_mark[journal.head \div Ppb]
  /\ nand'.failed[journal.head \div Ppb]

(* C33: a bad block met on the first page of a block, outside a         *)
(* recovery, is handled inside the call: enqueue() does not return      *)
(* recover, the block is marked bad, bb_current is incremented (or      *)
(* rolled with the epoch), the head leaves the block, and the call      *)
(* returns success, or too_bad after max_retries failed attempts.       *)
C33_FirstPage ==
  [][FirstPageFailure =>
       /\ last'.err \in {"none", "too_bad"}
       /\ nand'.bad_mark[journal.head \div Ppb]
       /\ journal'.head \div Ppb # journal.head \div Ppb
       /\ journal'.bb_current > journal.bb_current
            \/ journal'.epoch # journal.epoch]_vars
(* (C - 1) * meta_size + header + cookie_size <= page size *)
GroupFits(c, C) ==
  (C - 1) * c.meta_size + header_size + c.cookie_size <= Pow2(c.log2_page_size)

(* C34: the group size C = 2^log2_ppc chosen at construction is the     *)
(* largest power of two <= 64 whose C - 1 metadata slots fit in a page  *)
(* next to the header and the cookie; it is 4 for 512-byte pages with   *)
(* 132-byte metadata and a 4-byte cookie; and it does not exceed the    *)
(* pages per block.                                                     *)
C34_GroupSize ==
  config.log2_ppc # 0 =>
    LET C == Pow2(config.log2_ppc)
    IN /\ C <= 64 /\ GroupFits(config, C)
       /\ C = 64 \/ ~GroupFits(config, 2 * C)
       /\ (config.log2_page_size = 9 /\ config.meta_size = 132
            /\ config.cookie_size = 4) => C = 4
       /\ C <= Pow2(config.log2_ppb)
(* this step is an enqueue() or a copy() of the journal test *)
JWriteCalled == last'.op \in {"jenqueue", "jrecover"}

(* the blocks the head left behind in this step that failed or are      *)
(* marked bad                                                           *)
BlocksAbandoned ==
  {b \in Blocks : /\ journal.head \div Ppb <= b /\ b < journal'.head \div Ppb
                  /\ (nand'.failed[b] \/ nand'.bad_mark[b])}

(* C35: bb_current counts the bad blocks before the head in the current *)
(* epoch: an enqueue() or copy() adds one for each block the head       *)
(* skips or abandons as bad, bb_current never exceeds the number of     *)
(* blocks before the head, and a call that leaves the head where it     *)
(* was, such as one that returns journal_full, leaves bb_current too.   *)
C35_BbCurrent ==
  [][/\ (JWriteCalled /\ journal'.epoch = journal.epoch) =>
          journal'.bb_current = journal.bb_current + Cardinality(BlocksAbandoned)
     /\ journal'.bb_current <= journal'.head \div Ppb
     /\ (JWriteCalled /\ journal'.head = journal.head) =>
          journal'.bb_current = journal.bb_current]_vars
(* this step is a gc() or a sync() that returned to its caller *)
GcStep ==
  /\ mode = "run" /\ last'.op \in {"gc", "sync"}
  /\ ~last'.crashed /\ last'.abort = "none"

(* C36: gc() and sync(), with the recovery they drive through           *)
(* try_recover, leave the logical map alone: for every sector the       *)
(* find() status and the content read are the same after the call as    *)
(* before, and so is count, also when the call meets bad blocks.        *)
C36_GcPreservesMap ==
  [][GcStep =>
       /\ MapView(M)' = MapView(M)
       /\ Snap(M)'.found = Snap(M).found
       /\ count' = count]_vars

(* an erase or a program of block b has returned bad_block: the chip    *)
(* has failed the block and left garbage in it                          *)
ReportedBad(n, b) ==
  n.failed[b] /\ \E p \in Pages : p \div Ppb = b /\ n.pages[p].d = DataGarbage

(* this step is a call of the map that returned without an error and    *)
(* with every recovery it drove completed                               *)
RecoveredStep ==
  /\ mode = "run" /\ ~last'.crashed /\ last'.abort = "none"
  /\ last'.err = "none" /\ ~in_recovery(journal')

(* C37: when in_recovery() is false again, every block that reported    *)
(* bad_block during the call (the block of the recovered root, a block  *)
(* that failed while the recovery was running, the block of the dumped  *)
(* meta page) is marked bad.                                            *)
C37_MarkedBad ==
  [][RecoveredStep =>
       \A b \in Blocks :
         (~ReportedBad(nand, b) /\ ReportedBad(nand', b)) => nand'.bad_mark[b]]_vars

C37_Witness ==
  /\ mode = "run" /\ nscript = 1 /\ nops = MaxOps /\ nfaults = 1
  /\ last.op = "write" /\ last.err = "none" /\ last.abort = "none"
  /\ ~in_recovery(journal)
  /\ Cardinality({b \in Blocks : ReportedBad(nand, b) /\ nand.bad_mark[b]}) >= 2

(* C38: tail_sync is frozen during recovery: a dequeue() called while   *)
(* in_recovery() is true would leave tail_sync alone, a step that       *)
(* begins and ends in recovery leaves it alone, also when it programs a *)
(* checkpoint, and a step that changes it during a recovery programs a  *)
(* checkpoint, ends the recovery and sets tail_sync to tail.            *)
C38_TailSyncFrozen ==
  [][/\ (mode = "run" /\ in_recovery(journal)) =>
          dequeue(M).j.tail_sync = journal.tail_sync
     /\ (in_recovery(journal) /\ in_recovery(journal')) =>
          journal'.tail_sync = journal.tail_sync
     /\ (in_recovery(journal) /\ journal'.tail_sync # journal.tail_sync) =>
          /\ ~in_recovery(journal') /\ CheckpointProgrammed
          /\ journal'.tail_sync = journal'.tail]_vars

(* a copy() of a recovery has just programmed a checkpoint, the journal *)
(* is still in recovery, pages have been dequeued since the last sync   *)
(* and tail_sync is behind the tail                                     *)
C38_Witness ==
  /\ last.op = "jrecover" /\ last.err = "none" /\ last.abort = "none"
  /\ in_recovery(journal) /\ journal.tail_sync # journal.tail
  /\ is_aligned(journal.head, Log2Ppc)
  /\ journal.head - 1 \in Pages /\ nand.pages[journal.head - 1].hdr.magic

(* every bad block of the chip is counted in bb_last or bb_current, and *)
(* no block is about to fail                                            *)
BadBlocksCounted ==
  Cardinality({b \in Blocks : nand.failed[b] \/ nand.bad_mark[b]
                                \/ nand.timebomb[b] > 0})
    <= (IF journal.bb_last > journal.bb_current
        THEN journal.bb_last ELSE journal.bb_current)

JWriteFull ==
  /\ last'.op \in {"jenqueue", "jrecover"}
  /\ last'.err = "journal_full" /\ last'.abort = "none"

(* C40: an enqueue() or a copy() that returns journal_full has no       *)
(* effect on the queue: head, tail, tail_sync and root are as before    *)
(* the call and no page of the chip has been programmed.                *)
C40_NoEffect ==
  [][JWriteFull =>
       /\ journal'.head = journal.head /\ journal'.tail = journal.tail
       /\ journal'.tail_sync = journal.tail_sync
       /\ journal'.root = journal.root
       /\ nand'.pages = nand.pages]_vars
====
